---- MODULE Spec2Model ----
(***************************************************************************)
(* The scroll synchronisation engine of react-native-collapsible-tab-view: *)
(* the shared values of Container.tsx, the per-pane scroll handler and the  *)
(* pane synchroniser of hooks.tsx (useScrollHandlerY), and the pane mount   *)
(* glue of FlatList.tsx.                                                    *)
(*                                                                          *)
(* One action is one handler (a worklet, a React callback or an effect)     *)
(* run to completion.  A useAnimatedReaction whose input is written by a    *)
(* handler runs in the frame of that write, so it is part of the action     *)
(* that writes the input (calculateNextOffset, nextIndex, indexDecimal,     *)
(* tempYAnimation).  The pane synchroniser and the timers (withDelay,       *)
(* withTiming, withDecay) run in later frames and are actions of their own. *)
(*                                                                          *)
(* Numbers are JavaScript numbers restricted to small integers, with two    *)
(* sentinels: Undef (undefined: a hole of an array, an unmeasured layout    *)
(* value) and NaN (the result of arithmetic on a non-number; an animation   *)
(* object stored in an array slot behaves as NaN in every use the code      *)
(* makes of it).                                                            *)
(***************************************************************************)
EXTENDS Integers, Sequences, FiniteSets, TLC

\* ------------------------------------------------------------------ bounds
MaxTabs == 2
MaxY == 3
MaxHeader == 2
MaxContent == 5
MaxAcc == 5
MaxPull == 1

\* ------------------------------------------------------- program constants
\* Number.MAX_VALUE, scaled: larger than every length of the model.
MAX_VALUE == 1000
\* TABBAR_HEIGHT, scaled: the default tab bar height.
TABBAR_HEIGHT == 1
\* the page width of the horizontal pager (containerWidth), scaled
PageWidth == 2
\* the measured height of the container (containerHeight), scaled
ContainerH == 3

\* ---------------------------------------------------------------- numbers
NaN == -99
Undef == -98
NoName == "undefined"
Names == {<<"A", "B", "C", "D">>[k] : k \in 1 .. MaxTabs}

IsNum(x) == x # NaN /\ x # Undef
\* a + b, a - b, -a
JsAdd(a, b) == IF IsNum(a) /\ IsNum(b) THEN a + b ELSE NaN
JsSub(a, b) == IF IsNum(a) /\ IsNum(b) THEN a - b ELSE NaN
JsNeg(a) == IF IsNum(a) THEN 0 - a ELSE NaN
\* Math.min, Math.max
JsMin(a, b) == IF IsNum(a) /\ IsNum(b) THEN (IF a < b THEN a ELSE b) ELSE NaN
JsMax(a, b) == IF IsNum(a) /\ IsNum(b) THEN (IF a > b THEN a ELSE b) ELSE NaN
\* a < b, a <= b, a > b, a >= b: false when an operand is no number
JsLt(a, b) == IsNum(a) /\ IsNum(b) /\ a < b
JsLe(a, b) == IsNum(a) /\ IsNum(b) /\ a <= b
JsGt(a, b) == IsNum(a) /\ IsNum(b) /\ a > b
JsGe(a, b) == IsNum(a) /\ IsNum(b) /\ a >= b
\* a === b
JsEq(a, b) == a # NaN /\ a = b
\* a || 0 and a || d
OrZero(a) == IF IsNum(a) THEN a ELSE 0
OrElse(a, d) == IF IsNum(a) /\ a # 0 THEN a ELSE d
\* truthiness of a number
Truthy(a) == IsNum(a) /\ a # 0

\* interpolate without the clamp: the value is extended beyond the range
InterpolateExtend(x, l, r) ==
  IF ~(IsNum(x) /\ IsNum(l) /\ IsNum(r)) THEN NaN ELSE x

\* interpolate clamped at the end l of the range only
InterpolateFromLeft(x, l, r) ==
  IF ~(IsNum(x) /\ IsNum(l) /\ IsNum(r)) THEN NaN
  ELSE IF r >= l THEN (IF x < l THEN l ELSE x)
  ELSE (IF x > l THEN l ELSE x)

\* interpolate(x, [l, r], [l, r], Extrapolate.CLAMP) of reanimated
Interpolate(x, l, r) ==
  IF ~(IsNum(x) /\ IsNum(l) /\ IsNum(r)) THEN NaN
  ELSE IF r - l = 0 THEN l
  ELSE IF r >= l THEN (IF x < l THEN l ELSE IF x > r THEN r ELSE x)
  ELSE (IF x > l THEN l ELSE IF x < r THEN r ELSE x)

\* A JavaScript array: a function from 0 .. length-1, and the property "-1",
\* to values; a hole and an absent property read as Undef.
NewArray(n) == [i \in (-1) .. (n - 1) |-> IF i = -1 THEN Undef ELSE 0]
JsLength(arr) == Cardinality(DOMAIN arr) - 1
At(arr, i) == IF i \in DOMAIN arr THEN arr[i] ELSE Undef
SetAt(arr, i, v) ==
  [j \in (DOMAIN arr) \cup (0 .. i) \cup {i} |-> IF j = i THEN v ELSE At(arr, j)]

\* ------------------------------------------------------------------- state
VARIABLES
  props,                   \* revealHeaderOnScroll, snapThreshold, minHeaderHeight, pullToRefreshHeight
  IS_IOS, isRefreshing,
  headerHeight, tabBarHeight, containerHeight,
  tabNames, index, calculateNextOffset, scrollY, contentHeights,
  offset, accScrollY, accDiffClamp, scrollYCurrent,
  isScrolling, isGliding, isSnapping, snappingTo,
  snapAnim, snapCancelled, isScrollingTimer, yAnim,
  enabled, tabIndex, afterDrag, refMap,
  scrollX, isSwiping, canUpdateIndexDecimal, indexDecimal,
  swipeLog,                \* history: the tabs focused since the pager was last dragged
  startY, panActive, tempYAnimation, decay, shouldAnimateScroll, shouldAnimateTimer,
  afterRender,
  children, tabProps,      \* the children given to the container, what useTabProps makes of them
  out

configVars == <<props, IS_IOS, children, tabProps>>
layoutVars == <<headerHeight, tabBarHeight, containerHeight>>
tabVars == <<tabNames, index, calculateNextOffset, offset>>
arrayVars == <<scrollY, contentHeights>>
accVars == <<accScrollY, accDiffClamp, snapAnim, snapCancelled>>
flagVars == <<isScrolling, isScrollingTimer, isGliding, isSnapping, snappingTo>>
yVars == <<scrollYCurrent, yAnim>>
paneVars == <<enabled, tabIndex, afterDrag, refMap>>
pagerVars == <<scrollX, isSwiping, canUpdateIndexDecimal, indexDecimal, swipeLog>>
panVars == <<startY, panActive, tempYAnimation, decay, shouldAnimateScroll, shouldAnimateTimer>>
vars == <<configVars, isRefreshing, layoutVars, tabVars, arrayVars, accVars, flagVars,
          yVars, paneVars, pagerVars, panVars, afterRender, out>>

NoAnim == -97
\* null
Null == -96
\* no decay running on tempYAnimation
NoDecay == [velocity |-> 0, hi |-> Undef, on |-> FALSE]

\* what a step hands to the outside: the return value of an imperative call,
\* the change events, the scroll commands <<pane, y, animated>> and the
\* refresh callbacks it invoked
NoOut == [ret |-> "none", change |-> <<>>, cmds |-> {}, refresh |-> {}]

\* ---------------------------------------------------------- derived values
\* tabNames.value[i]
NameAt(names, i) == IF i \in 0 .. (Len(names) - 1) THEN names[i + 1] ELSE NoName
\* findIndex counting positions from one
FindIndexFromOne(names, name) ==
  IF \E k \in 1 .. Len(names) : names[k] = name
  THEN CHOOSE k \in 1 .. Len(names) : names[k] = name
  ELSE -1

\* tabNames.value.findIndex((n) => n === name), tabNames.value.indexOf(name)
FindIndex(names, name) ==
  IF \E k \in 1 .. Len(names) : names[k] = name
  THEN (CHOOSE k \in 1 .. Len(names) : names[k] = name) - 1
  ELSE -1

focusedTab == NameAt(tabNames, index)

contentInset ==
  IF IS_IOS THEN OrZero(headerHeight) + OrZero(tabBarHeight) ELSE 0

headerScrollDistance ==
  IF headerHeight # Undef THEN headerHeight - props.minHeaderHeight ELSE 0

\* the translation without the clamp at headerScrollDistance
headerTranslateYUnclamped ==
  IF props.revealHeaderOnScroll THEN JsNeg(accDiffClamp) ELSE JsNeg(scrollYCurrent)

\* the translation taken from the focused tab's recorded offset
headerTranslateYOfTab ==
  IF props.revealHeaderOnScroll
  THEN JsNeg(accDiffClamp)
  ELSE JsNeg(JsMin(At(scrollY, index), headerScrollDistance))

headerTranslateY ==
  IF props.revealHeaderOnScroll
  THEN JsNeg(accDiffClamp)
  ELSE JsNeg(JsMin(scrollYCurrent, headerScrollDistance))

\* --------------------------------------------------------------- tab lists
RECURSIVE SeqsOver(_, _)
\* the duplicate-free sequences of length n over the names S
SeqsOver(S, n) ==
  IF n = 0 THEN {<<>>}
  ELSE UNION {{Append(q, x) : x \in S \ {q[k] : k \in 1 .. Len(q)}} : q \in SeqsOver(S, n - 1)}

\* the tab lists useTabProps accepts: unique names, in declaration order
TabLists == UNION {SeqsOver(Names, n) : n \in 1 .. MaxTabs}

NamesOf(names) == {names[k] : k \in 1 .. Len(names)}

\* ------------------------------------------------------- the tab descriptors
\* a child of the container: an empty node, or an element with its type (the
\* tab wrapper "Tab" or another component) and its name prop
NoElement == [type |-> "null", name |-> NoName]
Elements == {NoElement} \cup [type : {"Tab", "View"}, name : Names]

\* the Map after Children.forEach has visited the children from position i
\* (counted from 0, empty nodes included) with the entries acc, in insertion
\* order; or the error the callback throws
RECURSIVE ForEachChild(_, _, _)
ForEachChild(c, i, acc) ==
  IF i >= Len(c) THEN [kind |-> "ok", options |-> acc]
  ELSE LET element == c[i + 1]
       IN IF element.type = "null" THEN ForEachChild(c, i + 1, acc)
          ELSE IF element.type # "Tab"
          THEN [kind |-> "error",
                message |-> "Container children must be wrapped in a <Tabs.Tab ... /> component"]
          ELSE IF \E k \in 1 .. Len(acc) : acc[k].name = element.name
          THEN [kind |-> "error", message |-> "Tab names must be unique"]
          ELSE ForEachChild(c, i + 1, Append(acc, [index |-> i, name |-> element.name]))

\* useTabProps that passes over a child of another type and reports no error
UseTabPropsLenient(c) ==
  LET tabs == SelectSeq(c, LAMBDA e : e.type = "Tab")
  IN [kind |-> "ok",
      options |-> [k \in 1 .. Len(tabs) |-> [index |-> k - 1, name |-> tabs[k].name]]]

\* useTabProps(children, Tab): the descriptors by name, in insertion order
UseTabProps(c) == ForEachChild(c, 0, <<>>)

\* the second result of useTabProps: the keys of the Map
RECURSIVE KeysOf(_)
KeysOf(options) ==
  IF options = <<>> THEN <<>>
  ELSE <<Head(options).name>> \o KeysOf(Tail(options))

OptionKeys(r) == KeysOf(r.options)

\* the children that declare the tab list names
RECURSIVE ChildrenOf(_)
ChildrenOf(names) ==
  IF names = <<>> THEN <<>>
  ELSE <<[type |-> "Tab", name |-> Head(names)]>> \o ChildrenOf(Tail(names))

\* ------------------------------------------------------------------- Init
SnapDen == 2
PropsSet ==
  [revealHeaderOnScroll : BOOLEAN,
   snapThreshold : {Undef, 1},
   minHeaderHeight : {0, 1},
   pullToRefreshHeight : {0, MaxPull}]

\* the index the container starts with
InitialIndex(names, initialTabName) ==
  IF initialTabName # NoName THEN FindIndex(names, initialTabName) ELSE 0

\* the state after the first render and its effects, for the props in P, the
\* platforms in Ios, the declared tab lists in Lists and the headerHeight
\* props in Headers. Writes: whether the write the effect on isRefreshing
\* makes on the JS thread at mount reaches the array scrollY
InitWith(P, Ios, Lists, Headers, Writes) ==
  /\ props \in P
  /\ IS_IOS \in Ios
  /\ isRefreshing = FALSE
  /\ headerHeight \in Headers
  /\ tabBarHeight = TABBAR_HEIGHT
  /\ containerHeight = Undef
  /\ tabNames \in Lists
  /\ children = ChildrenOf(tabNames)
  /\ tabProps = UseTabProps(children)
  /\ \E initialTabName \in Names \cup {NoName} :
       index = InitialIndex(tabNames, initialTabName)
  /\ calculateNextOffset = index
  \* the effect on isRefreshing runs on the JS thread at mount: its write of
  \* an animation object to scrollY.value[index.value] either stays in the
  \* JS-side copy of the array or puts a non-number into the slot
  /\ \E w \in Writes :
       scrollY = IF w THEN SetAt(NewArray(Len(tabNames)), index, NaN)
                 ELSE NewArray(Len(tabNames))
  /\ contentHeights = NewArray(Len(tabNames))
  /\ offset = 0 /\ accScrollY = 0 /\ accDiffClamp = 0
  /\ scrollYCurrent = 0
  /\ isScrolling = 0 /\ isGliding = FALSE /\ isSnapping = FALSE /\ snappingTo = 0
  /\ snapAnim = NoAnim /\ snapCancelled = FALSE /\ isScrollingTimer = FALSE
  /\ yAnim = NoAnim
  /\ enabled = [n \in Names |-> FALSE]
  /\ tabIndex = [n \in Names |-> FindIndex(tabNames, n)]
  /\ afterDrag = [n \in Names |-> FALSE]
  /\ refMap = {}
  /\ scrollX = index * PageWidth
  /\ isSwiping = FALSE /\ canUpdateIndexDecimal = FALSE
  /\ indexDecimal = scrollX
  /\ swipeLog = <<>>
  /\ startY = 0 /\ panActive = FALSE /\ tempYAnimation = 0 /\ decay = NoDecay
  /\ shouldAnimateScroll = 0 /\ shouldAnimateTimer = FALSE
  /\ afterRender = TRUE
  /\ out = NoOut

Init == InitWith(PropsSet, BOOLEAN, TabLists, {Undef, MaxHeader}, BOOLEAN)

\* ------------------------------------------------------------ tab switches
\* the reaction on calculateNextOffset (Container.tsx 297-315) for the value i,
\* with the tab list names: the new offset, index and the change event
CalculateNextOffset(names, i) ==
  IF i # index
  THEN [offset |-> JsAdd(JsSub(At(scrollY, index), At(scrollY, i)), offset),
        index |-> i,
        change |-> <<[prevIndex |-> index, index |-> i,
                      prevTabName |-> NameAt(names, index),
                      tabName |-> NameAt(names, i)]>>]
  ELSE [offset |-> offset, index |-> index, change |-> <<>>]

\* the guard without the glide
BusyScrolling == Truthy(isScrolling)

\* whether onTabPress, setIndex and jumpToTab refuse to act
Busy == Truthy(isScrolling) \/ isGliding

\* onTabPress that takes the pager's path for the focused tab too
OnTabPressViaPager(names, name) ==
  LET i == FindIndex(names, name)
      r == CalculateNextOffset(names, i)
  IN IF Busy
     THEN [pressed |-> FALSE, cno |-> calculateNextOffset, index |-> index,
           offset |-> offset, change |-> <<>>, canUpdate |-> canUpdateIndexDecimal,
           cmds |-> {}]
     ELSE [pressed |-> TRUE, cno |-> i, index |-> r.index, offset |-> r.offset,
           change |-> r.change, canUpdate |-> TRUE, cmds |-> {}]

\* onTabPress(name) with the tab list names, and the reaction on
\* calculateNextOffset it triggers
OnTabPress(names, name) ==
  LET i == FindIndex(names, name)
      r == CalculateNextOffset(names, i)
      same == name = NameAt(names, index)
  IN IF Busy
     THEN [pressed |-> FALSE, cno |-> calculateNextOffset, index |-> index,
           offset |-> offset, change |-> <<>>, canUpdate |-> canUpdateIndexDecimal,
           cmds |-> {}]
     ELSE [pressed |-> TRUE, cno |-> i, index |-> r.index, offset |-> r.offset,
           change |-> r.change,
           canUpdate |-> IF same THEN canUpdateIndexDecimal ELSE TRUE,
           cmds |-> IF same /\ name \in refMap
                    THEN {<<name, headerScrollDistance, TRUE>>} ELSE {}]

\* the writes of onTabPress
ApplyTabPress(r) ==
  /\ calculateNextOffset' = r.cno
  /\ index' = r.index
  /\ offset' = r.offset
  /\ canUpdateIndexDecimal' = r.canUpdate

\* a press on the tab bar
TabBarPress(name) ==
  /\ name \in NamesOf(tabNames)
  /\ LET r == OnTabPress(tabNames, name)
     IN /\ ApplyTabPress(r)
        /\ out' = [NoOut EXCEPT !.change = r.change, !.cmds = r.cmds]
  /\ UNCHANGED <<configVars, isRefreshing, layoutVars, tabNames, arrayVars, accVars,
                 flagVars, yVars, paneVars, scrollX, isSwiping, swipeLog, indexDecimal, panVars,
                 afterRender>>

\* ref.setIndex(i)
SetIndex(i) ==
  IF Busy
  THEN /\ out' = [NoOut EXCEPT !.ret = "false"]
       /\ UNCHANGED <<configVars, isRefreshing, layoutVars, tabVars, arrayVars, accVars,
                      flagVars, yVars, paneVars, pagerVars, panVars, afterRender>>
  ELSE /\ LET r == OnTabPress(tabNames, NameAt(tabNames, i))
          IN /\ ApplyTabPress(r)
             /\ out' = [NoOut EXCEPT !.ret = "true",
                                    !.change = r.change, !.cmds = r.cmds]
       /\ UNCHANGED <<configVars, isRefreshing, layoutVars, tabNames, arrayVars, accVars,
                      flagVars, yVars, paneVars, scrollX, isSwiping, swipeLog, indexDecimal,
                      panVars, afterRender>>

\* ref.jumpToTab(name)
JumpToTab(name) ==
  IF Busy
  THEN /\ out' = [NoOut EXCEPT !.ret = "false"]
       /\ UNCHANGED <<configVars, isRefreshing, layoutVars, tabVars, arrayVars, accVars,
                      flagVars, yVars, paneVars, pagerVars, panVars, afterRender>>
  ELSE /\ LET r == OnTabPress(tabNames, name)
          IN /\ ApplyTabPress(r)
             /\ out' = [NoOut EXCEPT !.ret = "true",
                                    !.change = r.change, !.cmds = r.cmds]
       /\ UNCHANGED <<configVars, isRefreshing, layoutVars, tabNames, arrayVars, accVars,
                      flagVars, yVars, paneVars, scrollX, isSwiping, swipeLog, indexDecimal,
                      panVars, afterRender>>

\* ref.getFocusedTab(), ref.getCurrentIndex()
getFocusedTab == NameAt(tabNames, index)
getCurrentIndex == index

\* ------------------------------------------------- the per-pane scroll handler
\* the panes that are mounted: one per declared tab
Panes == NamesOf(tabNames)

\* contentHeight of useScrollHandlerY(name)
ContentHeight(name) == OrElse(At(contentHeights, FindIndex(tabNames, name)), MAX_VALUE)

\* the normalised distance without the clamp to the scrollable size
NormalizedYRaw(name, s) == (s - contentInset) + contentInset

\* the scroll position onScroll derives from the scrolled distance s the pane
\* reports (on iOS the native offset is s - contentInset)
NormalizedY(name, s) ==
  IF IS_IOS
  THEN LET y == (s - contentInset) + contentInset
           clampMax == ContentHeight(name) - OrZero(containerHeight) + contentInset
       IN Interpolate(y, 0, clampMax)
  ELSE s

\* the scrolled distances a pane can report
RawY == IF IS_IOS THEN (-1) .. MaxY ELSE 0 .. MaxY

\* the accumulator taken as the clamped absolute position
NextAccDiffClampAbsolute(delta) ==
  JsMin(headerScrollDistance, JsMax(0, JsAdd(accScrollY, delta)))

\* the accumulator after a scroll event that moved accScrollY by delta
NextAccDiffClamp(delta) ==
  LET nextValue == JsAdd(accDiffClamp, delta)
  IN IF JsGt(delta, 0) THEN JsMin(headerScrollDistance, nextValue)
     ELSE IF JsLt(delta, 0) THEN JsMax(0, nextValue)
     ELSE accDiffClamp

\* whether the number a is within the model's range for accumulated scroll
InRange(a) == IsNum(a) => (a >= 0 - MaxAcc /\ a <= MaxAcc)

\* scrollHandler.onScroll of the pane name. oldAccScrollY is written and read
\* within the handler only; it is the accScrollY the handler finds.
PaneOnScroll(name, s) ==
  /\ name \in Panes
  /\ s \in RawY
  /\ out' = NoOut
  /\ IF enabled[name] /\ focusedTab = name
     THEN LET y == NormalizedY(name, s)
              acc == JsAdd(y, offset)
              delta == JsSub(acc, accScrollY)
              diff == ~isSnapping /\ props.revealHeaderOnScroll /\ (JsGt(delta, 0) \/ JsLt(delta, 0))
          IN /\ InRange(acc)
             /\ scrollYCurrent' = y
             /\ yAnim' = NoAnim
             /\ scrollY' = SetAt(scrollY, index, y)
             /\ accScrollY' = acc
             /\ accDiffClamp' = IF diff THEN NextAccDiffClamp(delta) ELSE accDiffClamp
             /\ snapAnim' = IF diff THEN NoAnim ELSE snapAnim
             /\ snapCancelled' = IF diff /\ snapAnim # NoAnim THEN TRUE ELSE snapCancelled
             /\ isScrolling' = 1
             /\ isScrollingTimer' = TRUE
             /\ UNCHANGED <<contentHeights, isGliding, isSnapping, snappingTo>>
     ELSE UNCHANGED <<arrayVars, accVars, flagVars, yVars>>
  /\ UNCHANGED <<configVars, isRefreshing, layoutVars, tabVars, paneVars, pagerVars,
                 panVars, afterRender>>

\* the timer runs out and leaves isScrolling as it is
IsScrollingTimeoutKeeps ==
  /\ isScrollingTimer
  /\ isScrollingTimer' = FALSE
  /\ out' = NoOut
  /\ UNCHANGED <<configVars, isRefreshing, layoutVars, tabVars, arrayVars, accVars,
                 isScrolling, isGliding, isSnapping, snappingTo, yVars, paneVars,
                 pagerVars, panVars, afterRender>>

\* the timer that onScroll starts on isScrolling runs out
IsScrollingTimeout ==
  /\ isScrollingTimer
  /\ isScrolling' = 0
  /\ isScrollingTimer' = FALSE
  /\ out' = NoOut
  /\ UNCHANGED <<configVars, isRefreshing, layoutVars, tabVars, arrayVars, accVars,
                 isGliding, isSnapping, snappingTo, yVars, paneVars, pagerVars, panVars,
                 afterRender>>

\* scrollHandler.onBeginDrag of the pane name
PaneOnBeginDrag(name) ==
  /\ name \in Panes
  /\ out' = NoOut
  /\ IF enabled[name]
     THEN /\ snapAnim' = NoAnim
          /\ snapCancelled' = (snapCancelled \/ snapAnim # NoAnim)
          /\ isSnapping' = FALSE
          /\ isScrolling' = 0
          /\ isScrollingTimer' = FALSE
          /\ isGliding' = FALSE
          /\ afterDrag' = IF IS_IOS THEN [afterDrag EXCEPT ![name] = FALSE] ELSE afterDrag
          /\ UNCHANGED <<accScrollY, accDiffClamp, snappingTo>>
     ELSE UNCHANGED <<accVars, flagVars, afterDrag>>
  /\ UNCHANGED <<configVars, isRefreshing, layoutVars, tabVars, arrayVars, yVars,
                 enabled, tabIndex, refMap, pagerVars, panVars, afterRender>>

\* a x <= hsd * snapThreshold, a > hsd * snapThreshold; snapThreshold is
\* props.snapThreshold / SnapDen; LtThreshold is the strict comparison
LtThreshold(a) == JsLt(SnapDen * a, headerScrollDistance * props.snapThreshold)
LeThreshold(a) == JsLe(SnapDen * a, headerScrollDistance * props.snapThreshold)
\* the comparison made on accDiffClamp whatever value is given
GtThresholdOfAcc(a) ==
  JsGt(SnapDen * accDiffClamp, headerScrollDistance * props.snapThreshold)
GtThreshold(a) == JsGt(SnapDen * a, headerScrollDistance * props.snapThreshold)

\* the scroll command of useScroller: nothing when the pane's ref is not registered
ScrollTo(name, y, animated) ==
  IF name \in refMap THEN {<<name, y, animated>>} ELSE {}

\* onMomentumEnd of the pane name: the snap it starts (the target of the
\* timing on accDiffClamp, or NoAnim), the flags it writes and its commands
OnMomentumEnd(name) ==
  LET keep == [snap |-> NoAnim, isSnapping |-> isSnapping, snappingTo |-> snappingTo,
               isGliding |-> isGliding, cmds |-> {}]
      done == [keep EXCEPT !.isGliding = FALSE]
      hsd == headerScrollDistance
  IN IF ~enabled[name] THEN keep
     ELSE IF props.snapThreshold = Undef THEN done
     ELSE IF props.revealHeaderOnScroll
     THEN IF JsGt(accDiffClamp, 0)
          THEN IF GtThreshold(scrollYCurrent)
               THEN IF LeThreshold(accDiffClamp)
                    THEN [done EXCEPT !.snap = 0, !.isSnapping = TRUE]
                    ELSE IF JsLt(accDiffClamp, hsd)
                    THEN [done EXCEPT !.snap = hsd, !.isSnapping = TRUE,
                                      !.cmds = IF JsLt(scrollYCurrent, hsd)
                                               THEN ScrollTo(name, hsd, TRUE) ELSE {}]
                    ELSE done
               ELSE [done EXCEPT !.snap = 0, !.isSnapping = TRUE]
          ELSE done
     ELSE IF LeThreshold(scrollYCurrent)
          THEN [done EXCEPT !.snappingTo = 0, !.isSnapping = FALSE,
                            !.cmds = ScrollTo(name, 0, TRUE)]
          ELSE IF JsLe(scrollYCurrent, hsd)
          THEN [done EXCEPT !.snappingTo = hsd, !.isSnapping = FALSE,
                            !.cmds = ScrollTo(name, hsd, TRUE)]
          ELSE [done EXCEPT !.isSnapping = FALSE]

\* the writes of onMomentumEnd; a new timing on accDiffClamp cancels the one
\* that runs, whose callback still comes
ApplyMomentumEnd(r) ==
  /\ isSnapping' = r.isSnapping
  /\ snappingTo' = r.snappingTo
  /\ isGliding' = r.isGliding
  /\ snapAnim' = IF r.snap # NoAnim THEN r.snap ELSE snapAnim
  /\ snapCancelled' = (snapCancelled \/ (r.snap # NoAnim /\ snapAnim # NoAnim))
  /\ out' = [NoOut EXCEPT !.cmds = r.cmds]
  /\ UNCHANGED <<accScrollY, accDiffClamp, isScrolling, isScrollingTimer>>

\* scrollHandler.onMomentumEnd of the pane name
PaneOnMomentumEnd(name) ==
  /\ name \in Panes
  /\ ApplyMomentumEnd(OnMomentumEnd(name))
  /\ UNCHANGED <<configVars, isRefreshing, layoutVars, tabVars, arrayVars, yVars,
                 paneVars, pagerVars, panVars, afterRender>>

\* scrollHandler.onEndDrag of the pane name
PaneOnEndDrag(name) ==
  /\ name \in Panes
  /\ out' = NoOut
  /\ IF enabled[name]
     THEN /\ isGliding' = TRUE
          /\ afterDrag' = IF IS_IOS THEN [afterDrag EXCEPT ![name] = TRUE] ELSE afterDrag
     ELSE UNCHANGED <<isGliding, afterDrag>>
  /\ UNCHANGED <<configVars, isRefreshing, layoutVars, tabVars, arrayVars, accVars,
                 isScrolling, isScrollingTimer, isSnapping, snappingTo, yVars,
                 enabled, tabIndex, refMap, pagerVars, panVars, afterRender>>

\* onMomentumBegin that leaves the delay on afterDrag running
PaneOnMomentumBeginKeeps(name) ==
  /\ name \in Panes
  /\ out' = NoOut
  /\ UNCHANGED <<configVars, isRefreshing, layoutVars, tabVars, arrayVars, accVars,
                 flagVars, yVars, paneVars, pagerVars, panVars, afterRender>>

\* scrollHandler.onMomentumBegin of the pane name
PaneOnMomentumBegin(name) ==
  /\ name \in Panes
  /\ out' = NoOut
  /\ afterDrag' = IF enabled[name] /\ IS_IOS THEN [afterDrag EXCEPT ![name] = FALSE]
                  ELSE afterDrag
  /\ UNCHANGED <<configVars, isRefreshing, layoutVars, tabVars, arrayVars, accVars,
                 flagVars, yVars, enabled, tabIndex, refMap, pagerVars, panVars,
                 afterRender>>

\* the delay on afterDrag that onEndDrag starts on iOS runs out
AfterDragTimer(name) ==
  /\ afterDrag[name]
  /\ afterDrag' = [afterDrag EXCEPT ![name] = FALSE]
  /\ ApplyMomentumEnd([OnMomentumEnd(name) EXCEPT !.isGliding = FALSE])
  /\ UNCHANGED <<configVars, isRefreshing, layoutVars, tabVars, arrayVars, yVars,
                 enabled, tabIndex, refMap, pagerVars, panVars, afterRender>>

\* a frame of the timing that snaps accDiffClamp; its callback when it ends
SnapFrame ==
  /\ snapAnim # NoAnim
  /\ out' = NoOut
  /\ LET next == IF accDiffClamp < snapAnim THEN accDiffClamp + 1
                 ELSE IF accDiffClamp > snapAnim THEN accDiffClamp - 1
                 ELSE accDiffClamp
     IN /\ accDiffClamp' = next
        /\ IF next = snapAnim
           THEN snapAnim' = NoAnim /\ isSnapping' = FALSE
           ELSE UNCHANGED <<snapAnim, isSnapping>>
  /\ UNCHANGED <<configVars, isRefreshing, layoutVars, tabVars, arrayVars, accScrollY, snapCancelled, isScrolling, isScrollingTimer, isGliding,
                 snappingTo, yVars, paneVars, pagerVars, panVars, afterRender>>

\* the callback of a cancelled timing on accDiffClamp
SnapCancelledCallback ==
  /\ snapCancelled
  /\ snapCancelled' = FALSE
  /\ isSnapping' = FALSE
  /\ out' = NoOut
  /\ UNCHANGED <<configVars, isRefreshing, layoutVars, tabVars, arrayVars, accScrollY, accDiffClamp, snapAnim, isScrolling, isScrollingTimer,
                 isGliding, snappingTo, yVars, paneVars, pagerVars, panVars, afterRender>>

\* --------------------------------------------------------- the pane glue
\* useAfterMountEffect of FlatList: the pane enables its handler after mounting
EnableAfterMount(name) ==
  /\ name \in Panes
  /\ ~enabled[name]
  /\ enabled' = [enabled EXCEPT ![name] = TRUE]
  /\ out' = NoOut
  /\ UNCHANGED <<configVars, isRefreshing, layoutVars, tabVars, arrayVars, accVars,
                 flagVars, yVars, tabIndex, afterDrag, refMap, pagerVars, panVars,
                 afterRender>>

\* isContentScrollable of the focused tab
IsContentScrollable ==
  JsGt(JsAdd(At(contentHeights, index), OrZero(tabBarHeight)), OrZero(containerHeight))

\* the reaction of FlatList on scrollYCurrent: the pane enables or disables
\* its handler as the content can scroll (no externalScrollY is given)
CanScrollReaction(name) ==
  /\ name \in Panes
  /\ LET newCanScroll == JsGt(scrollYCurrent, 0) /\ IsContentScrollable
     IN /\ enabled[name] # newCanScroll
        /\ enabled' = [enabled EXCEPT ![name] = newCanScroll]
  /\ out' = NoOut
  /\ UNCHANGED <<configVars, isRefreshing, layoutVars, tabVars, arrayVars, accVars,
                 flagVars, yVars, tabIndex, afterDrag, refMap, pagerVars, panVars,
                 afterRender>>

\* the effect of Container that corrects an index beyond the tab list names:
\* the result of onTabPress when it acts, nothing otherwise. seen is the list
\* onTabPress reads from tabNames.value
IndexEffect(names, seen) ==
  IF index >= Len(names)
  THEN OnTabPress(seen, NameAt(names, Len(names) - 1))
  ELSE [pressed |-> FALSE, cno |-> calculateNextOffset, index |-> index,
        offset |-> offset, change |-> <<>>, canUpdate |-> canUpdateIndexDecimal,
        cmds |-> {}]

\* setRef(name, ref): the pane registers its ref; refMap is a new object, so
\* onTabPress is too and the index effect runs again
SetRef(name) ==
  /\ name \in Panes
  /\ name \notin refMap
  /\ refMap' = refMap \cup {name}
  /\ LET r == IndexEffect(tabNames, tabNames)
     IN /\ ApplyTabPress(r)
        /\ out' = [NoOut EXCEPT !.change = r.change, !.cmds = r.cmds]
  /\ UNCHANGED <<configVars, isRefreshing, layoutVars, tabNames, arrayVars, accVars,
                 flagVars, yVars, enabled, tabIndex, afterDrag, scrollX, isSwiping, swipeLog,
                 indexDecimal, panVars, afterRender>>

\* the children of the container change to the tab list names. keyed: the
\* tab elements carry their own keys, so a pane whose tab stays is kept when
\* its position changes; otherwise it is mounted anew. The derived value
\* tabNames is updated on the UI thread while the index effect runs on the
\* JS thread: seen, the list the effect reads from it, is the old or the new
\* one.
SetTabs(names, keyed, seen) ==
  /\ names \in TabLists
  /\ names # tabNames
  /\ seen \in {tabNames, names}
  /\ children' = ChildrenOf(names)
  /\ tabProps' = UseTabProps(children')
  /\ tabNames' = OptionKeys(tabProps')
  /\ LET kept(n) == /\ n \in Panes /\ n \in NamesOf(names)
                    /\ (keyed \/ FindIndex(names, n) = FindIndex(tabNames, n))
     IN /\ enabled' = [n \in Names |-> kept(n) /\ enabled[n]]
        /\ afterDrag' = [n \in Names |-> kept(n) /\ afterDrag[n]]
        /\ tabIndex' = [n \in Names |-> IF kept(n) THEN tabIndex[n] ELSE FindIndex(names, n)]
  /\ LET r == IndexEffect(names, seen)
     IN /\ ApplyTabPress(r)
        /\ out' = [NoOut EXCEPT !.change = r.change, !.cmds = r.cmds]
  /\ afterRender' = TRUE
  /\ UNCHANGED <<props, IS_IOS, isRefreshing, layoutVars, arrayVars, accVars, flagVars,
                 yVars, refMap, scrollX, isSwiping, swipeLog, indexDecimal, panVars>>

\* the reaction on afterRender: every pane is scrolled to the focused offset
AfterRenderReaction ==
  /\ afterRender
  /\ afterRender' = FALSE
  /\ out' = [NoOut EXCEPT !.cmds =
               UNION {ScrollTo(n, At(scrollY, index), FALSE) : n \in Panes}]
  /\ UNCHANGED <<configVars, isRefreshing, layoutVars, tabVars, arrayVars, accVars,
                 flagVars, yVars, paneVars, pagerVars, panVars>>

\* getHeaderHeight: the header is laid out with height h
GetHeaderHeight(h) ==
  /\ h \in 0 .. MaxHeader
  /\ headerHeight # h
  /\ headerHeight' = h
  /\ out' = NoOut
  /\ UNCHANGED <<configVars, isRefreshing, tabBarHeight, containerHeight, tabVars,
                 arrayVars, accVars, flagVars, yVars, paneVars, pagerVars, panVars,
                 afterRender>>

\* onLayout: the container is laid out
OnLayout ==
  /\ containerHeight # ContainerH
  /\ containerHeight' = ContainerH
  /\ out' = NoOut
  /\ UNCHANGED <<configVars, isRefreshing, headerHeight, tabBarHeight, tabVars,
                 arrayVars, accVars, flagVars, yVars, paneVars, pagerVars, panVars,
                 afterRender>>

\* contentContainerStyle.minHeight and paddingTop of useCollapsibleStyle: the
\* least content height a pane reports (a layout height is not negative)
MinContentHeight ==
  IF IS_IOS
  THEN JsMax(0, OrZero(containerHeight) - OrZero(tabBarHeight))
  ELSE OrZero(containerHeight) + OrZero(headerHeight)

\* setContentHeights(name, h): the pane name reports its content height
ContentSizeChange(name, h) ==
  /\ name \in Panes
  /\ h \in {MinContentHeight, MaxContent}
  /\ At(contentHeights, FindIndex(tabNames, name)) # h
  /\ contentHeights' = SetAt(contentHeights, FindIndex(tabNames, name), h)
  /\ out' = NoOut
  /\ UNCHANGED <<configVars, isRefreshing, layoutVars, tabVars, scrollY, accVars,
                 flagVars, yVars, paneVars, pagerVars, panVars, afterRender>>

\* ------------------------------------------------------ the pane synchroniser
\* the position selected when, with no snap configured, the least of the
\* focused offset and headerScrollDistance is taken wherever the tabs lie
NextPositionAlways(name) ==
  LET focusedScrollY == At(scrollY, index)
      tabScrollY == At(scrollY, tabIndex[name])
      currIsOnTop == JsLe(tabScrollY, headerScrollDistance + 1)
      focusedIsOnTop == JsLe(focusedScrollY, headerScrollDistance + 1)
  IN IF JsEq(focusedScrollY, tabScrollY) THEN Null
     ELSE IF props.revealHeaderOnScroll
     THEN (IF JsGt(accDiffClamp, tabScrollY) \/ currIsOnTop THEN accDiffClamp ELSE Null)
     ELSE IF props.snapThreshold # Undef
     THEN (IF focusedIsOnTop THEN snappingTo
           ELSE IF currIsOnTop THEN OrZero(headerHeight) ELSE Null)
     ELSE JsMin(focusedScrollY, headerScrollDistance)

\* the position the synchroniser of the pane name selects, or Null
NextPosition(name) ==
  LET focusedScrollY == At(scrollY, index)
      tabScrollY == At(scrollY, tabIndex[name])
      areEqual == JsEq(focusedScrollY, tabScrollY)
      currIsOnTop == JsLe(tabScrollY, headerScrollDistance + 1)
      focusedIsOnTop == JsLe(focusedScrollY, headerScrollDistance + 1)
  IN IF areEqual THEN Null
     ELSE IF props.revealHeaderOnScroll
     THEN (IF JsGt(accDiffClamp, tabScrollY) \/ currIsOnTop THEN accDiffClamp ELSE Null)
     ELSE IF props.snapThreshold # Undef
     THEN (IF focusedIsOnTop THEN snappingTo
           ELSE IF currIsOnTop THEN OrZero(headerHeight) ELSE Null)
     ELSE IF currIsOnTop \/ focusedIsOnTop
     THEN JsMin(focusedScrollY, headerScrollDistance)
     ELSE Null

\* the input of the reaction without the test of isGliding
SyncReadyWhileGliding(name) ==
  ~isSnapping /\ ~Truthy(isScrolling) /\ enabled[name]

\* the input of the reaction: whether the pane name may synchronise
SyncReady(name) ==
  ~isSnapping /\ ~Truthy(isScrolling) /\ ~isGliding /\ enabled[name]

\* the reaction "sync unfocused scenes" of the pane name
SyncPane(name) ==
  /\ name \in Panes
  /\ SyncReady(name)
  /\ focusedTab # name
  /\ LET nextPosition == NextPosition(name)
     IN IF nextPosition # Null
        THEN /\ scrollY' = SetAt(scrollY, tabIndex[name], nextPosition)
             /\ out' = [NoOut EXCEPT !.cmds = ScrollTo(name, nextPosition, FALSE)]
        ELSE /\ UNCHANGED scrollY
             /\ out' = NoOut
  /\ UNCHANGED <<configVars, isRefreshing, layoutVars, tabVars, contentHeights, accVars,
                 flagVars, yVars, paneVars, pagerVars, panVars, afterRender>>

\* ------------------------------------------------------ the horizontal pager
\* Math.floor(x / PageWidth)
FloorIndex(x) == x \div PageWidth

\* Math.round(x / PageWidth)
RoundIndex(x) == (2 * x + PageWidth) \div (2 * PageWidth)

\* the reactions with an indexDecimal that copies scrollX whatever
\* canUpdateIndexDecimal is
PagerReactionsAlways(x, canUpdate, swiping) ==
  LET nextIndex == IF swiping THEN RoundIndex(x) ELSE Null
      cno == IF nextIndex # Null /\ nextIndex # index THEN nextIndex
             ELSE calculateNextOffset
      r == CalculateNextOffset(tabNames, cno)
  IN /\ indexDecimal' = x
     /\ calculateNextOffset' = cno
     /\ index' = r.index
     /\ offset' = r.offset
     /\ InRange(r.offset)
     /\ out' = [NoOut EXCEPT !.change = r.change]

\* the reactions on scrollX, canUpdateIndexDecimal and isSwiping after a pager
\* event left the values x, canUpdate and swiping: indexDecimal (in units of
\* 1 / PageWidth), then nextIndex and the reaction on calculateNextOffset
PagerReactions(x, canUpdate, swiping) ==
  LET dec == IF canUpdate THEN x ELSE indexDecimal
      nextIndex == IF swiping THEN RoundIndex(dec) ELSE Null
      cno == IF nextIndex # Null /\ nextIndex # index THEN nextIndex
             ELSE calculateNextOffset
      r == CalculateNextOffset(tabNames, cno)
  IN /\ indexDecimal' = dec
     /\ calculateNextOffset' = cno
     /\ index' = r.index
     /\ offset' = r.offset
     /\ InRange(r.offset)
     /\ out' = [NoOut EXCEPT !.change = r.change]

\* the longest history of a swipe that is followed
MaxSwipeLog == 3

\* the history of a swipe after a pager event moved the focus from a tab to
\* another or left it
Visit(log, from, to) == IF to # from THEN Append(log, to) ELSE log

\* scrollHandlerX.onBeginDrag
PagerBeginDrag ==
  /\ canUpdateIndexDecimal' = TRUE
  /\ isSwiping' = TRUE
  /\ PagerReactions(scrollX, TRUE, TRUE)
  /\ swipeLog' = Visit(<<index>>, index, index')
  /\ UNCHANGED <<configVars, isRefreshing, layoutVars, tabNames, arrayVars, accVars,
                 flagVars, yVars, paneVars, scrollX, panVars, afterRender>>

\* scrollHandlerX.onScroll with contentOffset.x = x
PagerScroll(x) ==
  /\ x \in 0 .. (PageWidth * (Len(tabNames) - 1))
  /\ x # scrollX
  /\ scrollX' = x
  /\ PagerReactions(x, canUpdateIndexDecimal, isSwiping)
  /\ swipeLog' = IF isSwiping THEN Visit(swipeLog, index, index') ELSE swipeLog
  /\ Len(swipeLog') <= MaxSwipeLog
  /\ UNCHANGED <<configVars, isRefreshing, layoutVars, tabNames, arrayVars, accVars,
                 flagVars, yVars, paneVars, isSwiping, canUpdateIndexDecimal, panVars,
                 afterRender>>

\* scrollHandlerX.onMomentumEnd
PagerMomentumEnd ==
  /\ canUpdateIndexDecimal' = FALSE
  /\ isSwiping' = FALSE
  /\ PagerReactions(scrollX, FALSE, FALSE)
  /\ swipeLog' = <<>>
  /\ UNCHANGED <<configVars, isRefreshing, layoutVars, tabNames, arrayVars, accVars,
                 flagVars, yVars, paneVars, scrollX, panVars, afterRender>>

\* ----------------------------------------------------------- the pan gesture
\* contentAndHeaderHeight of the focused tab
ContentAndHeaderHeight ==
  JsAdd(JsAdd(At(contentHeights, index), headerScrollDistance), OrZero(tabBarHeight))

\* the upper end of the scroll range of the focused tab
ScrollMax == JsSub(ContentAndHeaderHeight, OrZero(containerHeight))

\* dragGestureHandler.onStart; the callback of a decay it cancels starts the
\* delay that returns shouldAnimateScroll to 0
PanStart ==
  /\ ~panActive
  /\ panActive' = TRUE
  /\ decay' = NoDecay
  /\ shouldAnimateTimer' = (shouldAnimateTimer \/ decay.on)
  /\ startY' = JsNeg(scrollYCurrent)
  /\ out' = NoOut
  /\ UNCHANGED <<configVars, isRefreshing, layoutVars, tabVars, arrayVars, accVars,
                 flagVars, yVars, paneVars, pagerVars, tempYAnimation,
                 shouldAnimateScroll, afterRender>>

\* the translations a pan gesture reports
PanT == (0 - MaxY) .. MaxY

\* dragGestureHandler.onActive with event.translationY = t
PanActive(t) ==
  /\ panActive
  /\ t \in PanT
  /\ LET actualTranslationY == startY + t
         y == IF t < 0 \/ actualTranslationY < 0
              THEN 0 - actualTranslationY
              ELSE Interpolate(0 - actualTranslationY, 0, 0 - props.pullToRefreshHeight)
     IN IF t < 0 /\ JsGe(scrollYCurrent, ScrollMax)
        THEN /\ out' = NoOut
             /\ UNCHANGED <<scrollY, yVars>>
        ELSE /\ y <= MaxY
             /\ scrollYCurrent' = y
             /\ yAnim' = NoAnim
             /\ scrollY' = SetAt(scrollY, index, y)
             /\ out' = [NoOut EXCEPT !.cmds =
                          IF t < 0 \/ actualTranslationY < 0
                          THEN ScrollTo(focusedTab, y, FALSE) ELSE {}]
  /\ UNCHANGED <<configVars, isRefreshing, layoutVars, tabVars, contentHeights, accVars,
                 flagVars, paneVars, pagerVars, panVars, afterRender>>

\* the velocities a pan gesture ends with
PanV == {-1, 0, 1}

\* dragGestureHandler.onEnd with event.velocityY = v
PanEnd(v) ==
  /\ panActive
  /\ v \in PanV
  /\ panActive' = FALSE
  /\ IF JsGt(headerTranslateY, 0)
     THEN IF JsGe(headerTranslateY, props.pullToRefreshHeight)
          THEN /\ out' = [NoOut EXCEPT !.refresh =
                            IF focusedTab # NoName THEN {focusedTab} ELSE {}]
               /\ UNCHANGED <<scrollY, yVars, tempYAnimation, decay,
                              shouldAnimateScroll, shouldAnimateTimer>>
          ELSE \* the timing on scrollYCurrent; the slot of the array receives
               \* the animation object, not a number
               /\ yAnim' = IF scrollYCurrent = 0 THEN NoAnim ELSE 0
               /\ scrollY' = SetAt(scrollY, index, NaN)
               /\ out' = NoOut
               /\ UNCHANGED <<scrollYCurrent, tempYAnimation, decay,
                              shouldAnimateScroll, shouldAnimateTimer>>
     ELSE LET isScrollForward == v <= 0
              canScrollHeader ==
                IF isScrollForward
                THEN JsGt(JsAdd(headerScrollDistance, headerTranslateY), 0)
                ELSE JsLt(headerTranslateY, 0)
          IN IF ~IsContentScrollable /\ ~canScrollHeader
             THEN /\ out' = NoOut
                  /\ UNCHANGED <<scrollY, yVars, tempYAnimation, decay,
                                 shouldAnimateScroll, shouldAnimateTimer>>
             ELSE /\ shouldAnimateScroll' = 1
                  /\ shouldAnimateTimer' = FALSE
                  /\ tempYAnimation' = scrollYCurrent
                  /\ decay' = [velocity |-> 0 - v, hi |-> ScrollMax, on |-> TRUE]
                  \* the reaction on tempYAnimation
                  /\ scrollY' = IF tempYAnimation # scrollYCurrent
                                THEN SetAt(scrollY, index, scrollYCurrent) ELSE scrollY
                  /\ yAnim' = IF tempYAnimation # scrollYCurrent THEN NoAnim ELSE yAnim
                  /\ out' = [NoOut EXCEPT !.cmds =
                               IF tempYAnimation # scrollYCurrent
                               THEN ScrollTo(focusedTab, scrollYCurrent, FALSE) ELSE {}]
                  /\ UNCHANGED scrollYCurrent
  /\ UNCHANGED <<configVars, isRefreshing, layoutVars, tabVars, contentHeights, accVars,
                 flagVars, paneVars, pagerVars, startY, afterRender>>

\* a frame of the decay on tempYAnimation, and the reaction on tempYAnimation;
\* settle: the velocity has died down with this frame
DecayFrame(settle) ==
  /\ decay.on
  /\ LET moved == tempYAnimation + decay.velocity
         atLow == decay.velocity < 0 /\ moved <= 0
         atHigh == decay.velocity > 0 /\ JsGe(moved, decay.hi)
         value == IF atLow THEN 0 ELSE IF atHigh THEN decay.hi ELSE moved
         finished == atLow \/ atHigh \/ decay.velocity = 0 \/ settle
     IN /\ value <= MaxY
        /\ tempYAnimation' = value
        /\ decay' = IF finished THEN NoDecay ELSE decay
        /\ shouldAnimateTimer' = (shouldAnimateTimer \/ finished)
        /\ IF shouldAnimateScroll = 1 /\ value # tempYAnimation
           THEN /\ scrollYCurrent' = value
                /\ yAnim' = NoAnim
                /\ scrollY' = SetAt(scrollY, index, value)
                /\ out' = [NoOut EXCEPT !.cmds = ScrollTo(focusedTab, value, FALSE)]
           ELSE /\ out' = NoOut
                /\ UNCHANGED <<scrollY, yVars>>
  /\ UNCHANGED <<configVars, isRefreshing, layoutVars, tabVars, contentHeights, accVars,
                 flagVars, paneVars, pagerVars, startY, panActive, shouldAnimateScroll,
                 afterRender>>

\* the delay on shouldAnimateScroll runs out
ShouldAnimateTimeout ==
  /\ shouldAnimateTimer
  /\ shouldAnimateTimer' = FALSE
  /\ shouldAnimateScroll' = 0
  /\ out' = NoOut
  /\ UNCHANGED <<configVars, isRefreshing, layoutVars, tabVars, arrayVars, accVars,
                 flagVars, yVars, paneVars, pagerVars, startY, panActive, tempYAnimation,
                 decay, afterRender>>

\* the prop isRefreshing changes to b, and the effect on it: a timing on
\* scrollYCurrent; the write of the animation object to the slot of the array
\* is made on the JS thread and either stays in the JS-side copy of the array
\* or (w) puts a non-number into the slot
SetIsRefreshing(b, w) ==
  /\ b \in BOOLEAN
  /\ b # isRefreshing
  /\ isRefreshing' = b
  /\ LET target == IF b THEN 0 - props.pullToRefreshHeight ELSE 0
     IN yAnim' = IF scrollYCurrent = target THEN NoAnim ELSE target
  /\ scrollY' = IF w THEN SetAt(scrollY, index, NaN) ELSE scrollY
  /\ out' = NoOut
  /\ UNCHANGED <<configVars, layoutVars, tabVars, contentHeights, accVars, flagVars,
                 scrollYCurrent, paneVars, pagerVars, panVars, afterRender>>

\* a frame of the timing on scrollYCurrent
YFrame ==
  /\ yAnim # NoAnim
  /\ LET next == IF scrollYCurrent < yAnim THEN scrollYCurrent + 1
                 ELSE IF scrollYCurrent > yAnim THEN scrollYCurrent - 1
                 ELSE scrollYCurrent
     IN /\ scrollYCurrent' = next
        /\ yAnim' = IF next = yAnim THEN NoAnim ELSE yAnim
  /\ out' = NoOut
  /\ UNCHANGED <<configVars, isRefreshing, layoutVars, tabVars, arrayVars, accVars,
                 flagVars, paneVars, pagerVars, panVars, afterRender>>

\* ------------------------------------------------------------------- Next
\* the indices a caller passes to setIndex
Indices == (-1) .. MaxTabs

Next ==
  \/ \E name \in Names : TabBarPress(name)
  \/ \E i \in Indices : SetIndex(i)
  \/ \E name \in Names : JumpToTab(name)
  \/ \E name \in Names : \E s \in (-1) .. MaxY : PaneOnScroll(name, s)
  \/ IsScrollingTimeout
  \/ \E name \in Names : PaneOnBeginDrag(name)
  \/ \E name \in Names : PaneOnEndDrag(name)
  \/ \E name \in Names : PaneOnMomentumBegin(name)
  \/ \E name \in Names : PaneOnMomentumEnd(name)
  \/ \E name \in Names : AfterDragTimer(name)
  \/ SnapFrame
  \/ SnapCancelledCallback
  \/ \E name \in Names : EnableAfterMount(name)
  \/ \E name \in Names : CanScrollReaction(name)
  \/ \E name \in Names : SetRef(name)
  \/ \E names \in TabLists : \E keyed \in BOOLEAN : \E seen \in TabLists :
       SetTabs(names, keyed, seen)
  \/ AfterRenderReaction
  \/ \E h \in 0 .. MaxHeader : GetHeaderHeight(h)
  \/ OnLayout
  \/ \E name \in Names : \E h \in 0 .. MaxContent : ContentSizeChange(name, h)
  \/ \E name \in Names : SyncPane(name)
  \/ PagerBeginDrag
  \/ \E x \in 0 .. (PageWidth * MaxTabs) : PagerScroll(x)
  \/ PagerMomentumEnd
  \/ PanStart
  \/ \E t \in PanT : PanActive(t)
  \/ \E v \in PanV : PanEnd(v)
  \/ \E settle \in BOOLEAN : DecayFrame(settle)
  \/ ShouldAnimateTimeout
  \/ \E b \in BOOLEAN : \E w \in BOOLEAN : SetIsRefreshing(b, w)
  \/ YFrame

Spec == Init /\ [][Next]_vars

\* ------------------------------------------------- component specifications
\* Tab switching and tab list changes: a container in clamp mode without snap
\* on Android, its header MaxSwitchY high and its panes scrolled by at most
\* MaxSwitchY, the imperative calls, presses on the tab bar and changes of
\* the children whose new tab list the index effect sees.
MaxSwitchY == 1

TabsProps ==
  [revealHeaderOnScroll |-> FALSE, snapThreshold |-> Undef, minHeaderHeight |-> 0,
   pullToRefreshHeight |-> 0]

InitTabs == InitWith({TabsProps}, {FALSE}, TabLists, {MaxSwitchY}, {FALSE})

NextTabs ==
  \/ \E name \in Names : TabBarPress(name)
  \/ \E i \in Indices : SetIndex(i)
  \/ \E name \in Names : JumpToTab(name)
  \/ \E name \in Names : \E s \in 0 .. MaxSwitchY : PaneOnScroll(name, s)
  \/ IsScrollingTimeout
  \/ \E name \in Names : PaneOnEndDrag(name)
  \/ \E name \in Names : PaneOnMomentumEnd(name)
  \/ \E name \in Names : EnableAfterMount(name)
  \/ \E names \in TabLists : \E keyed \in BOOLEAN : SetTabs(names, keyed, names)

SpecTabs == InitTabs /\ [][NextTabs]_vars

\* The header in reveal mode: one or two tabs on Android, with and without
\* snap; the focused pane scrolls, is dragged and glides, the header is laid
\* out again, the focus moves by jumpToTab.
RevealProps ==
  [revealHeaderOnScroll : {TRUE}, snapThreshold : {Undef, 1}, minHeaderHeight : {0},
   pullToRefreshHeight : {0}]

InitReveal == InitWith(RevealProps, {FALSE}, TabLists, {MaxHeader}, {FALSE})

NextReveal ==
  \/ \E name \in Names : EnableAfterMount(name)
  \/ \E name \in Names : \E s \in 0 .. MaxY : PaneOnScroll(name, s)
  \/ IsScrollingTimeout
  \/ \E name \in Names : PaneOnBeginDrag(name)
  \/ \E name \in Names : PaneOnEndDrag(name)
  \/ \E name \in Names : PaneOnMomentumEnd(name)
  \/ SnapFrame
  \/ SnapCancelledCallback
  \/ \E h \in 0 .. MaxHeader : GetHeaderHeight(h)
  \/ \E name \in Names : JumpToTab(name)

SpecReveal == InitReveal /\ [][NextReveal]_vars

\* Pull to refresh: one tab in clamp mode on Android, with and without a
\* pullToRefreshHeight; the pane scrolls by at most MaxPullY, the pan gesture
\* starts, moves by at most MaxPullY and ends, the decay and the timings run,
\* isRefreshing changes, the container and the content are measured.
MaxPullY == 2

PullProps ==
  [revealHeaderOnScroll : {FALSE}, snapThreshold : {Undef}, minHeaderHeight : {0},
   pullToRefreshHeight : {0, MaxPull}]

InitPull == InitWith(PullProps, {FALSE}, {<<"A">>}, {MaxHeader}, {FALSE})

NextPull ==
  \/ \E name \in Names : EnableAfterMount(name)
  \/ \E name \in Names : \E s \in 0 .. MaxPullY : PaneOnScroll(name, s)
  \/ IsScrollingTimeout
  \/ OnLayout
  \/ \E name \in Names : \E h \in 0 .. MaxContent : ContentSizeChange(name, h)
  \/ PanStart
  \/ \E t \in (0 - MaxPullY) .. MaxPullY : PanActive(t)
  \/ \E v \in PanV : PanEnd(v)
  \/ \E settle \in BOOLEAN : DecayFrame(settle)
  \/ ShouldAnimateTimeout
  \/ \E b \in BOOLEAN : SetIsRefreshing(b, FALSE)
  \/ YFrame

SpecPull == InitPull /\ [][NextPull]_vars

\* C1: in reveal mode accDiffClamp stays within [0, headerScrollDistance] in
\* every reachable state, whatever the scroll events, drags, snaps, tab
\* switches and header-height changes.
C1_AccDiffClampInRange ==
  props.revealHeaderOnScroll =>
    (JsGe(accDiffClamp, 0) /\ JsLe(accDiffClamp, headerScrollDistance))

\* C2: in every reachable state 0 <= currentIndex < tabCount, whatever the
\* initialTabName, the index given to setIndex, the name given to jumpToTab
\* and the tabs removed.
C2_IndexInRange == 0 <= index /\ index < Len(tabNames)

\* C3: in every state the sequence of per-tab scroll offsets and the sequence
\* of content heights are as long as the tab list, also after tabs were
\* inserted or removed.
C3_LengthsMatch ==
  /\ JsLength(scrollY) = Len(tabNames)
  /\ JsLength(contentHeights) = Len(tabNames)

\* C4: when the tab list changes (reorder, insertion, removal), every tab that
\* stays reads at its new index the scroll offset it had at its old index.
C4_OffsetsFollowNames ==
  [][tabNames' # tabNames =>
       \A n \in NamesOf(tabNames) \cap NamesOf(tabNames') :
         At(scrollY', FindIndex(tabNames', n)) = At(scrollY, FindIndex(tabNames, n))]_vars

\* C5: a tab switch from index A to index B sets offset to
\* offset + scrollY[A] - scrollY[B] and the index to B, so that
\* scrollY[index] + offset is the same number before and after the switch.
C5_SwitchKeepsAccumulated ==
  [][index' # index =>
       /\ IsNum(offset) /\ IsNum(At(scrollY, index)) /\ IsNum(At(scrollY, index'))
       /\ offset' = offset + At(scrollY, index) - At(scrollY, index')
       /\ IsNum(At(scrollY', index'))
       /\ At(scrollY', index') + offset' = At(scrollY, index) + offset]_vars

\* C6: in clamp mode without snap, when the focused tab is scrolled to y with
\* 0 <= y <= headerScrollDistance and the focus switches to a tab whose
\* recorded offset is 0, the header translation is -y after the switch.
C6_SwitchKeepsTranslation ==
  [][(/\ ~props.revealHeaderOnScroll /\ props.snapThreshold = Undef
      /\ index' # index
      /\ At(scrollY, index) = scrollYCurrent
      /\ JsGe(scrollYCurrent, 0) /\ JsLe(scrollYCurrent, headerScrollDistance)
      /\ At(scrollY, index') = 0)
     => headerTranslateY' = 0 - scrollYCurrent]_vars

\* a switch away from a tab scrolled to y > 0 to a tab recorded at 0 has
\* just happened, and the header is still translated by -y
C6_Witness ==
  /\ ~props.revealHeaderOnScroll /\ props.snapThreshold = Undef
  /\ out.change # <<>>
  /\ scrollYCurrent > 0 /\ scrollYCurrent <= headerScrollDistance
  /\ At(scrollY, out.change[1].prevIndex) = scrollYCurrent
  /\ At(scrollY, index) = 0
  /\ headerTranslateY = 0 - scrollYCurrent

\* C7: for every tab name X of the list, jumpToTab(X) called while neither
\* isScrolling nor isGliding is set returns true, and then getFocusedTab()
\* is X and getCurrentIndex() is the position of X in the list.
C7_JumpRoundTrip ==
  [][\A X \in Names :
       (X \in NamesOf(tabNames) /\ ~Truthy(isScrolling) /\ ~isGliding /\ JumpToTab(X))
       => /\ out'.ret = "true"
          /\ getFocusedTab' = X
          /\ \E k \in 1 .. Len(tabNames) : tabNames[k] = X /\ getCurrentIndex' = k - 1]_vars

\* a call has returned true and moved the focus from one tab of the list to
\* another
C7_Witness ==
  /\ out.ret = "true"
  /\ out.change # <<>>
  /\ out.change[1].prevTabName \in Names
  /\ getFocusedTab \in Names
  /\ getFocusedTab # out.change[1].prevTabName

\* C8: setIndex and jumpToTab return false and leave the index, offset and
\* every per-tab offset as they are when isScrolling or isGliding is set at
\* the call; they return true otherwise.
C8_GuardedCalls ==
  [][out'.ret # "none" =>
       IF Truthy(isScrolling) \/ isGliding
       THEN /\ out'.ret = "false"
            /\ index' = index /\ offset' = offset /\ scrollY' = scrollY
       ELSE out'.ret = "true"]_vars

\* a call has returned false while a pane glides
C8_Witness == out.ret = "false" /\ isGliding /\ ~Truthy(isScrolling)

\* C9: an index that a removal of tabs left at or beyond the tab count is
\* corrected; it stays out of range at most while a scroll or a glide holds
\* the correction back.
C9_IndexCorrected ==
  index >= Len(tabNames) => (Truthy(isScrolling) \/ isGliding)

\* C10 as the specification words it: in clamp mode the header translation is
\* non-positive in every reachable state, also during and after a pull to
\* refresh and while isRefreshing is set.
C10_NeverPositive ==
  ~props.revealHeaderOnScroll => JsLe(headerTranslateY, 0)

\* C10, amended: in clamp mode with headerScrollDistance >= 0 the header
\* translation never exceeds pullToRefreshHeight, and it is positive only
\* while scrollYCurrent is negative (a pull to refresh in progress, or
\* isRefreshing holding the header down).
C10_AtMostPullHeight ==
  (~props.revealHeaderOnScroll /\ headerScrollDistance >= 0) =>
    /\ JsLe(headerTranslateY, props.pullToRefreshHeight)
    /\ (JsGt(headerTranslateY, 0) => scrollYCurrent < 0)

\* the pan gesture has pulled the header down by the whole pullToRefreshHeight
C10_Witness ==
  /\ ~props.revealHeaderOnScroll
  /\ panActive
  /\ props.pullToRefreshHeight > 0
  /\ headerTranslateY = props.pullToRefreshHeight

\* The header in clamp mode: one tab, on both platforms, with and without
\* snap; the pane registers its ref, scrolls (on iOS also beyond the top),
\* is dragged and glides, the container and the content are measured.
ClampProps ==
  [revealHeaderOnScroll : {FALSE}, snapThreshold : {Undef, 1}, minHeaderHeight : {0},
   pullToRefreshHeight : {0}]

InitClamp == InitWith(ClampProps, BOOLEAN, {<<"A">>}, {MaxHeader}, {FALSE})

NextClamp ==
  \/ \E name \in Names : EnableAfterMount(name)
  \/ \E name \in Names : SetRef(name)
  \/ \E name \in Names : \E s \in (-1) .. MaxY : PaneOnScroll(name, s)
  \/ IsScrollingTimeout
  \/ \E name \in Names : PaneOnBeginDrag(name)
  \/ \E name \in Names : PaneOnEndDrag(name)
  \/ \E name \in Names : PaneOnMomentumBegin(name)
  \/ \E name \in Names : PaneOnMomentumEnd(name)
  \/ \E name \in Names : AfterDragTimer(name)
  \/ OnLayout
  \/ \E name \in Names : \E h \in 0 .. MaxContent : ContentSizeChange(name, h)

SpecClamp == InitClamp /\ [][NextClamp]_vars

\* C11: in clamp mode, once the scroll position of the focused tab has
\* reached headerScrollDistance the header translation is
\* -headerScrollDistance, and scrolling further down leaves it as it is.
C11_FullCollapse ==
  [][(/\ ~props.revealHeaderOnScroll
      /\ JsGe(scrollYCurrent, headerScrollDistance)
      /\ headerScrollDistance' = headerScrollDistance
      /\ JsGe(scrollYCurrent', scrollYCurrent))
     => /\ headerTranslateY = 0 - headerScrollDistance
        /\ headerTranslateY' = headerTranslateY]_vars

\* a scroll event has taken the focused tab beyond headerScrollDistance and
\* the header is translated by exactly -headerScrollDistance
C11_Witness ==
  /\ ~props.revealHeaderOnScroll
  /\ headerScrollDistance > 0
  /\ Truthy(isScrolling)
  /\ At(scrollY, index) = scrollYCurrent
  /\ scrollYCurrent > headerScrollDistance
  /\ headerTranslateY = 0 - headerScrollDistance

\* C12: in clamp mode with a snap threshold t = snapThreshold / SnapDen,
\* momentum end on the enabled focused pane at scroll position s snaps to 0
\* when s <= t * headerScrollDistance, snaps to headerScrollDistance when
\* t * headerScrollDistance < s <= headerScrollDistance, and beyond that
\* leaves snappingTo as it is and issues no scroll command.
C12_ClampSnap ==
  [][\A n \in Names :
       (/\ PaneOnMomentumEnd(n)
        /\ enabled[n]
        /\ focusedTab = n
        /\ ~props.revealHeaderOnScroll
        /\ props.snapThreshold # Undef
        /\ IsNum(scrollYCurrent))
       => IF SnapDen * scrollYCurrent <= headerScrollDistance * props.snapThreshold
          THEN /\ snappingTo' = 0
               /\ out'.cmds = ScrollTo(n, 0, TRUE)
          ELSE IF scrollYCurrent <= headerScrollDistance
          THEN /\ snappingTo' = headerScrollDistance
               /\ out'.cmds = ScrollTo(n, headerScrollDistance, TRUE)
          ELSE /\ snappingTo' = snappingTo
               /\ out'.cmds = {}]_vars

\* momentum has ended between the threshold and headerScrollDistance and the
\* focused pane is told to scroll, animated, to headerScrollDistance
C12_Witness ==
  /\ ~props.revealHeaderOnScroll
  /\ props.snapThreshold # Undef
  /\ focusedTab \in Names
  /\ enabled[focusedTab]
  /\ headerScrollDistance > 0
  /\ SnapDen * scrollYCurrent > headerScrollDistance * props.snapThreshold
  /\ scrollYCurrent <= headerScrollDistance
  /\ snappingTo = headerScrollDistance
  /\ out.cmds = {<<focusedTab, headerScrollDistance, TRUE>>}

\* C13: in reveal mode with no snap in progress, a scroll event of the
\* enabled focused pane sets accScrollY to scrollY[index] + offset and moves
\* accDiffClamp by the change delta of accScrollY, clamped: a positive delta
\* gives min(headerScrollDistance, old + delta), a negative delta gives
\* max(0, old + delta), no change leaves it.
C13_AccumulatedDelta ==
  [][\A n \in Names : \A s \in 0 .. MaxY :
       (/\ PaneOnScroll(n, s)
        /\ enabled[n]
        /\ focusedTab = n
        /\ props.revealHeaderOnScroll
        /\ ~isSnapping)
       => LET delta == JsSub(accScrollY', accScrollY)
          IN /\ accScrollY' = JsAdd(At(scrollY', index), offset)
             /\ accDiffClamp' =
                  IF JsGt(delta, 0)
                  THEN JsMin(headerScrollDistance, JsAdd(accDiffClamp, delta))
                  ELSE IF JsLt(delta, 0)
                  THEN JsMax(0, JsAdd(accDiffClamp, delta))
                  ELSE accDiffClamp]_vars

\* after scrolling down and then up a little the accumulator lies strictly
\* between 0 and headerScrollDistance and differs from the clamped position
C13_Witness ==
  /\ props.revealHeaderOnScroll
  /\ ~isSnapping
  /\ focusedTab \in Names
  /\ enabled[focusedTab]
  /\ Truthy(isScrolling)
  /\ IsNum(accScrollY)
  /\ accDiffClamp > 0
  /\ accDiffClamp < headerScrollDistance
  /\ accDiffClamp # JsMin(headerScrollDistance, JsMax(0, accScrollY))

\* Pull to refresh in both header modes: one tab, pullToRefreshHeight
\* MaxRefreshPull, so that a pan can be released after a partial and after a
\* full pull.
MaxRefreshPull == 2

RefreshProps ==
  [revealHeaderOnScroll : BOOLEAN, snapThreshold : {Undef}, minHeaderHeight : {0},
   pullToRefreshHeight : {MaxRefreshPull}]

InitRefresh == InitWith(RefreshProps, {FALSE}, {<<"A">>}, {MaxHeader}, {FALSE})

NextRefresh ==
  \/ \E name \in Names : EnableAfterMount(name)
  \/ \E name \in Names : \E s \in 0 .. MaxPullY : PaneOnScroll(name, s)
  \/ IsScrollingTimeout
  \/ OnLayout
  \/ \E name \in Names : \E h \in 0 .. MaxContent : ContentSizeChange(name, h)
  \/ PanStart
  \/ \E t \in (0 - MaxRefreshPull) .. MaxRefreshPull : PanActive(t)
  \/ \E v \in PanV : PanEnd(v)
  \/ \E settle \in BOOLEAN : DecayFrame(settle)
  \/ ShouldAnimateTimeout
  \/ YFrame

SpecRefresh == InitRefresh /\ [][NextRefresh]_vars

\* C14: with pullToRefreshHeight P > 0, in both header modes, a pan released
\* after a pull of at least P invokes the refresh callback of the focused tab
\* and of no other; released after a pull of less than P (and more than 0) it
\* invokes no refresh callback and the scroll position animates back to 0.
C14_RefreshOnRelease ==
  [][\A v \in PanV :
       (/\ PanEnd(v)
        /\ props.pullToRefreshHeight > 0
        /\ focusedTab # NoName
        /\ IsNum(scrollYCurrent)
        /\ scrollYCurrent < 0)
       => IF 0 - scrollYCurrent >= props.pullToRefreshHeight
          THEN out'.refresh = {focusedTab}
          ELSE /\ out'.refresh = {}
               /\ yAnim' = 0]_vars

\* The pane synchroniser: two tabs, every header mode, a header of height
\* MaxSyncHeader so that a pane can scroll beyond headerScrollDistance + 1;
\* the panes mount and register their refs, are dragged, scroll, glide and
\* snap, the focus moves by jumpToTab, the unfocused pane synchronises.
MaxSyncHeader == 1

SyncProps ==
  [revealHeaderOnScroll : BOOLEAN, snapThreshold : {Undef, 1}, minHeaderHeight : {0},
   pullToRefreshHeight : {0}]

InitSync == InitWith(SyncProps, {FALSE}, {<<"A", "B">>}, {MaxSyncHeader}, {FALSE})

NextSync ==
  \/ \E name \in Names : EnableAfterMount(name)
  \/ \E name \in Names : SetRef(name)
  \/ \E name \in Names : \E s \in 0 .. MaxY : PaneOnScroll(name, s)
  \/ IsScrollingTimeout
  \/ \E name \in Names : PaneOnBeginDrag(name)
  \/ \E name \in Names : PaneOnEndDrag(name)
  \/ \E name \in Names : PaneOnMomentumEnd(name)
  \/ SnapFrame
  \/ SnapCancelledCallback
  \/ \E name \in Names : SyncPane(name)
  \/ \E name \in Names : JumpToTab(name)

SpecSync == InitSync /\ [][NextSync]_vars

\* C15: a run of the pane synchroniser of an unfocused tab leaves a state in
\* which a second run, with nothing else in between, makes no mutation: it
\* changes no recorded offset and issues no scroll command.
C15_SecondRunNoOp ==
  [][\A n \in Names :
       SyncPane(n)
       => \/ NextPosition(n)' = Null
          \/ /\ SetAt(scrollY', tabIndex'[n], NextPosition(n)') = scrollY'
             /\ n \notin refMap']_vars

\* C16: the pane synchroniser neither writes the offset of a tab nor issues
\* a scroll command to its pane when the position it computes equals the
\* offset recorded for that tab.
C16_SilentWhenEqual ==
  [][\A n \in Names :
       (/\ SyncPane(n)
        /\ NextPosition(n) = At(scrollY, tabIndex[n]))
       => /\ out'.cmds = {}
          /\ scrollY' = scrollY]_vars

\* C17: the pane synchroniser writes the offset of an unfocused tab or
\* issues a scroll command only in a state where isScrolling, isGliding and
\* isSnapping are all unset and the handler of that pane is enabled.
C17_SyncOnlyWhenIdle ==
  [][\A n \in Names :
       (/\ SyncPane(n)
        /\ (scrollY' # scrollY \/ out'.cmds # {}))
       => /\ ~isSnapping
          /\ ~Truthy(isScrolling)
          /\ ~isGliding
          /\ enabled[n]]_vars

\* the synchroniser has just moved an unfocused pane to a position other
\* than the focused tab's
C17_Witness ==
  \E n \in Names :
    /\ n # focusedTab
    /\ enabled[n]
    /\ ~isSnapping /\ ~Truthy(isScrolling) /\ ~isGliding
    /\ At(scrollY, tabIndex[n]) # At(scrollY, index)
    /\ out.cmds = {<<n, At(scrollY, tabIndex[n]), FALSE>>}

\* C18: in both header modes isSnapping is set from the step of momentum end
\* that starts a snap (the timing on accDiffClamp in reveal mode, the
\* animated scroll command in clamp mode) for as long as the snap runs, and
\* the pane synchroniser makes no write while a snap runs.
C18_SnappingWhileSnapRuns ==
  [][/\ snapAnim' # NoAnim => isSnapping'
     /\ \A n \in Names :
          (PaneOnMomentumEnd(n) /\ \E c \in out'.cmds : c[3]) => isSnapping'
     /\ \A n \in Names :
          (SyncPane(n) /\ (scrollY' # scrollY \/ out'.cmds # {}))
          => snapAnim = NoAnim]_vars

\* C19: an event of any kind (scroll, drag begin, drag end, momentum begin,
\* momentum end) on a pane whose handler is not enabled or whose tab is not
\* the focused one leaves the shared state unchanged: scrollYCurrent, the
\* offsets of the tabs, accScrollY, accDiffClamp, isScrolling, isGliding,
\* isSnapping and snappingTo.
C19_IgnoredUnlessEnabledAndFocused ==
  [][\A n \in Names :
       (/\ ~enabled[n] \/ focusedTab # n
        /\ \/ \E s \in RawY : PaneOnScroll(n, s)
           \/ PaneOnBeginDrag(n)
           \/ PaneOnEndDrag(n)
           \/ PaneOnMomentumBegin(n)
           \/ PaneOnMomentumEnd(n))
       => UNCHANGED <<scrollYCurrent, scrollY, accScrollY, accDiffClamp, isScrolling,
                      isGliding, isSnapping, snappingTo>>]_vars

\* C20: after every processed scroll event of the focused pane, on every
\* platform and whatever distance the event reports, the value written to
\* scrollYCurrent and to the offset of the focused tab lies within
\* [0, contentHeight - containerHeight + contentInset].
C20_ScrollClamped ==
  [][\A n \in Names : \A s \in RawY :
       (/\ PaneOnScroll(n, s)
        /\ enabled[n]
        /\ focusedTab = n)
       => LET clampMax == ContentHeight(n) - OrZero(containerHeight) + contentInset
          IN /\ JsGe(scrollYCurrent', 0)
             /\ JsLe(scrollYCurrent', clampMax)
             /\ At(scrollY', index) = scrollYCurrent']_vars

\* C20 as amended: a processed scroll event of the focused pane writes the
\* same value to scrollYCurrent and to the offset of the focused tab; on iOS
\* that value lies within [0, contentHeight - containerHeight + contentInset]
\* whatever distance the event reports, elsewhere it is the reported distance.
C20_ClampedOnIos ==
  [][\A n \in Names : \A s \in RawY :
       (/\ PaneOnScroll(n, s)
        /\ enabled[n]
        /\ focusedTab = n)
       => LET clampMax == ContentHeight(n) - OrZero(containerHeight) + contentInset
          IN /\ At(scrollY', index) = scrollYCurrent'
             /\ IF IS_IOS
                THEN JsGe(scrollYCurrent', 0) /\ JsLe(scrollYCurrent', clampMax)
                ELSE scrollYCurrent' = s]_vars

\* on iOS the focused pane has scrolled to the end of its scrollable size,
\* which is less than the largest distance a pane reports
C20_Witness ==
  /\ IS_IOS
  /\ focusedTab \in Names
  /\ enabled[focusedTab]
  /\ Truthy(isScrolling)
  /\ scrollYCurrent = ContentHeight(focusedTab) - OrZero(containerHeight) + contentInset
  /\ scrollYCurrent < MaxY
  /\ At(scrollY, index) = scrollYCurrent

\* The header's measures: one tab, both header modes, a minHeaderHeight of 0
\* or 1, the headerHeight prop given or not; the header and the container are
\* laid out, the pane mounts and scrolls.
HeaderProps ==
  [revealHeaderOnScroll : BOOLEAN, snapThreshold : {Undef}, minHeaderHeight : {0, 1},
   pullToRefreshHeight : {0}]

InitHeader == InitWith(HeaderProps, {FALSE}, {<<"A">>}, {Undef, MaxHeader}, {FALSE})

NextHeader ==
  \/ \E h \in 0 .. MaxHeader : GetHeaderHeight(h)
  \/ OnLayout
  \/ \E name \in Names : EnableAfterMount(name)
  \/ \E name \in Names : \E s \in 0 .. MaxY : PaneOnScroll(name, s)
  \/ IsScrollingTimeout

SpecHeader == InitHeader /\ [][NextHeader]_vars

\* C21: headerScrollDistance (headerHeight - minHeaderHeight, or 0 while the
\* header is not measured) is at least 0 in every reachable state, for every
\* configured minHeaderHeight and every measured header height.
C21_DistanceNonNegative == headerScrollDistance >= 0

\* useTabProps on its own: the container is rendered with any list of at
\* most MaxChildren children, empty nodes, tabs and other components.
MaxChildren == 3

ChildLists == UNION {[1 .. n -> Elements] : n \in 0 .. MaxChildren}

\* the container is rendered with the children c: the memo of useTabProps
RenderChildren(c) ==
  /\ c # children
  /\ children' = c
  /\ tabProps' = UseTabProps(c)
  /\ out' = NoOut
  /\ UNCHANGED <<props, IS_IOS, isRefreshing, layoutVars, tabVars, arrayVars, accVars,
                 flagVars, yVars, paneVars, pagerVars, panVars, afterRender>>

InitTabProps == InitWith({TabsProps}, {FALSE}, {<<"A">>}, {MaxHeader}, {FALSE})

NextTabProps == \E c \in ChildLists : RenderChildren(c)

SpecTabProps == InitTabProps /\ [][NextTabProps]_vars

\* the children that are not empty nodes, in declaration order
NonEmpty(c) == SelectSeq(c, LAMBDA e : e.type # "null")

\* C22: building the tab descriptors fails with an explicit error, and gives
\* no descriptors, when a non-empty child is not a tab or when two children
\* carry the same name; otherwise it gives one descriptor per non-empty child,
\* keyed by its name, in declaration order.
C22_TabDescriptors ==
  LET c == NonEmpty(children)
      notTab == \E k \in 1 .. Len(c) : c[k].type # "Tab"
      sameName == \E j, k \in 1 .. Len(c) : j # k /\ c[j].name = c[k].name
  IN IF notTab \/ sameName
     THEN /\ tabProps.kind = "error"
          /\ "options" \notin DOMAIN tabProps
     ELSE /\ tabProps.kind = "ok"
          /\ Len(tabProps.options) = Len(c)
          /\ \A k \in 1 .. Len(c) : tabProps.options[k].name = c[k].name
          /\ OptionKeys(tabProps) = [k \in 1 .. Len(c) |-> c[k].name]

\* the children hold two tabs of one name, and useTabProps has thrown
C22_Witness ==
  /\ \E j, k \in 1 .. Len(children) :
       /\ j # k
       /\ children[j].type = "Tab" /\ children[k].type = "Tab"
       /\ children[j].name = children[k].name
  /\ \A k \in 1 .. Len(children) : children[k].type # "View"
  /\ tabProps.kind = "error"
  /\ tabProps.message = "Tab names must be unique"

\* C23: when the pane synchroniser selects a position for a tab whose pane
\* has not registered its ref, the step is a no-op: it issues no scroll
\* command and leaves the offset recorded for that tab as it is.
C23_NoOpWithoutRef ==
  [][\A n \in Names :
       (/\ SyncPane(n)
        /\ NextPosition(n) # Null
        /\ n \notin refMap)
       => /\ out'.cmds = {}
          /\ scrollY' = scrollY]_vars

\* The position the synchroniser selects: two tabs, every header mode, a
\* header of height 0 or MaxSyncHeader, so that both tabs can lie beyond
\* headerScrollDistance + 1 at different offsets.
InitTarget == InitWith(SyncProps, {FALSE}, {<<"A", "B">>}, {0, MaxSyncHeader}, {FALSE})

NextTarget ==
  \/ \E name \in Names : EnableAfterMount(name)
  \/ \E name \in Names : SetRef(name)
  \/ \E name \in Names : \E s \in 0 .. MaxY : PaneOnScroll(name, s)
  \/ IsScrollingTimeout
  \/ \E name \in Names : PaneOnMomentumEnd(name)
  \/ SnapFrame
  \/ SnapCancelledCallback
  \/ \E name \in Names : SyncPane(name)
  \/ \E name \in Names : JumpToTab(name)

SpecTarget == InitTarget /\ [][NextTarget]_vars

\* C24: for an unfocused tab whose recorded offset differs from the focused
\* tab's, the synchroniser writes and scrolls to the position chosen in this
\* order: in reveal mode accDiffClamp, if it exceeds the tab's offset or the
\* tab is at top (else none); with a snap threshold, the last snap target if
\* the focused tab is at top, else headerHeight if the other tab is at top
\* (else none); with no snap threshold min(focused offset,
\* headerScrollDistance) in every case.
C24_TargetPrecedence ==
  [][\A n \in Names :
       (/\ SyncPane(n)
        /\ IsNum(At(scrollY, index)) /\ IsNum(At(scrollY, tabIndex[n]))
        /\ IsNum(accDiffClamp)
        /\ At(scrollY, index) # At(scrollY, tabIndex[n]))
       => LET focusedOffset == At(scrollY, index)
              tabOffset == At(scrollY, tabIndex[n])
              tabAtTop == tabOffset <= headerScrollDistance + 1
              focusedAtTop == focusedOffset <= headerScrollDistance + 1
              target ==
                IF props.revealHeaderOnScroll
                THEN (IF accDiffClamp > tabOffset \/ tabAtTop THEN accDiffClamp ELSE Null)
                ELSE IF props.snapThreshold # Undef
                THEN (IF focusedAtTop THEN snappingTo
                      ELSE IF tabAtTop THEN OrZero(headerHeight) ELSE Null)
                ELSE IF focusedOffset < headerScrollDistance THEN focusedOffset
                ELSE headerScrollDistance
          IN IF target = Null
             THEN scrollY' = scrollY /\ out'.cmds = {}
             ELSE /\ scrollY' = SetAt(scrollY, tabIndex[n], target)
                  /\ out'.cmds = ScrollTo(n, target, FALSE)]_vars

\* C24 as amended: the same order, but with no snap threshold the position
\* min(focused offset, headerScrollDistance) is chosen only if one of the two
\* tabs is at top (else none).
C24_TargetPrecedenceAtTop ==
  [][\A n \in Names :
       (/\ SyncPane(n)
        /\ IsNum(At(scrollY, index)) /\ IsNum(At(scrollY, tabIndex[n]))
        /\ IsNum(accDiffClamp)
        /\ At(scrollY, index) # At(scrollY, tabIndex[n]))
       => LET focusedOffset == At(scrollY, index)
              tabOffset == At(scrollY, tabIndex[n])
              tabAtTop == tabOffset <= headerScrollDistance + 1
              focusedAtTop == focusedOffset <= headerScrollDistance + 1
              target ==
                IF props.revealHeaderOnScroll
                THEN (IF accDiffClamp > tabOffset \/ tabAtTop THEN accDiffClamp ELSE Null)
                ELSE IF props.snapThreshold # Undef
                THEN (IF focusedAtTop THEN snappingTo
                      ELSE IF tabAtTop THEN OrZero(headerHeight) ELSE Null)
                ELSE IF tabAtTop \/ focusedAtTop
                THEN (IF focusedOffset < headerScrollDistance THEN focusedOffset
                      ELSE headerScrollDistance)
                ELSE Null
          IN IF target = Null
             THEN scrollY' = scrollY /\ out'.cmds = {}
             ELSE /\ scrollY' = SetAt(scrollY, tabIndex[n], target)
                  /\ out'.cmds = ScrollTo(n, target, FALSE)]_vars

\* with no snap threshold the synchroniser has moved the unfocused pane,
\* which was at top, to headerScrollDistance while the focused tab lies
\* beyond headerScrollDistance + 1
C24_Witness ==
  \E n \in Names :
    /\ ~props.revealHeaderOnScroll /\ props.snapThreshold = Undef
    /\ n # focusedTab /\ focusedTab \in Names
    /\ enabled[n]
    /\ At(scrollY, index) > headerScrollDistance + 1
    /\ At(scrollY, tabIndex[n]) = headerScrollDistance
    /\ out.cmds = {<<n, headerScrollDistance, FALSE>>}

\* The snap in reveal mode: two tabs, a snap threshold of 1 / SnapDen, a
\* header of height MaxSnapHeader so that accDiffClamp can lie strictly
\* between the threshold and headerScrollDistance; the focus moves by
\* jumpToTab, so that accDiffClamp can exceed the scroll position.
MaxSnapHeader == 3

SnapProps ==
  [revealHeaderOnScroll : {TRUE}, snapThreshold : {1}, minHeaderHeight : {0},
   pullToRefreshHeight : {0}]

InitSnap == InitWith(SnapProps, {FALSE}, {<<"A", "B">>}, {MaxSnapHeader}, {FALSE})

NextSnap ==
  \/ \E name \in Names : EnableAfterMount(name)
  \/ \E name \in Names : SetRef(name)
  \/ \E name \in Names : \E s \in 0 .. MaxY : PaneOnScroll(name, s)
  \/ IsScrollingTimeout
  \/ \E name \in Names : PaneOnBeginDrag(name)
  \/ \E name \in Names : PaneOnEndDrag(name)
  \/ \E name \in Names : PaneOnMomentumEnd(name)
  \/ SnapFrame
  \/ SnapCancelledCallback
  \/ \E name \in Names : JumpToTab(name)

SpecSnap == InitSnap /\ [][NextSnap]_vars

\* C25: in reveal mode with a snap threshold t = snapThreshold / SnapDen,
\* momentum end on an enabled pane starts a snap only when accDiffClamp > 0:
\* to 0 if scrollYCurrent <= t * headerScrollDistance; otherwise to 0 when
\* accDiffClamp <= t * headerScrollDistance, to headerScrollDistance when
\* t * headerScrollDistance < accDiffClamp < headerScrollDistance, and none
\* when accDiffClamp >= headerScrollDistance. With accDiffClamp = 0 no snap
\* starts and isSnapping is left as it is.
C25_RevealSnap ==
  [][\A n \in Names :
       (/\ PaneOnMomentumEnd(n)
        /\ enabled[n]
        /\ props.revealHeaderOnScroll
        /\ props.snapThreshold # Undef
        /\ IsNum(accDiffClamp) /\ IsNum(scrollYCurrent))
       => LET limit == headerScrollDistance * props.snapThreshold
              starts(target) == isSnapping' /\ snapAnim' = target
              none == snapAnim' = snapAnim /\ isSnapping' = isSnapping
          IN IF accDiffClamp > 0
             THEN IF SnapDen * scrollYCurrent <= limit THEN starts(0)
                  ELSE IF SnapDen * accDiffClamp <= limit THEN starts(0)
                  ELSE IF accDiffClamp < headerScrollDistance
                  THEN starts(headerScrollDistance)
                  ELSE none
             ELSE none]_vars

\* momentum has ended with the scroll position at most at the threshold and
\* accDiffClamp beyond it, and the snap to 0 has started
C25_Witness ==
  /\ props.revealHeaderOnScroll
  /\ props.snapThreshold # Undef
  /\ focusedTab \in Names
  /\ enabled[focusedTab]
  /\ SnapDen * scrollYCurrent <= headerScrollDistance * props.snapThreshold
  /\ SnapDen * accDiffClamp > headerScrollDistance * props.snapThreshold
  /\ accDiffClamp < headerScrollDistance
  /\ isSnapping
  /\ snapAnim = 0
  /\ ~isGliding

\* The header in clamp mode with the timers left to run: the delay on
\* isScrolling is not held back for ever.
SpecClampFair == SpecClamp /\ WF_vars(IsScrollingTimeout)

\* C26: every processed scroll event of the focused pane sets isScrolling
\* and restarts the delay that clears it; isScrolling is cleared only when
\* that delay runs out, and it is cleared in the end.
C26_Debounce ==
  /\ [][/\ \A n \in Names : \A s \in RawY :
             (PaneOnScroll(n, s) /\ enabled[n] /\ focusedTab = n)
             => (isScrolling' = 1 /\ isScrollingTimer')
        /\ (Truthy(isScrolling) /\ ~Truthy(isScrolling')) => IsScrollingTimeout]_vars
  /\ Truthy(isScrolling) ~> ~Truthy(isScrolling)

\* C26 as amended: isScrolling is cleared when the delay runs out or when a
\* drag begins on an enabled pane, and by nothing else.
C26_DebounceOrDrag ==
  /\ [][/\ \A n \in Names : \A s \in RawY :
             (PaneOnScroll(n, s) /\ enabled[n] /\ focusedTab = n)
             => (isScrolling' = 1 /\ isScrollingTimer')
        /\ (Truthy(isScrolling) /\ ~Truthy(isScrolling'))
           => \/ IsScrollingTimeout
              \/ \E n \in Names : enabled[n] /\ PaneOnBeginDrag(n)]_vars
  /\ Truthy(isScrolling) ~> ~Truthy(isScrolling)

\* a scroll event has been processed: isScrolling is set, its delay runs
C26_Witness ==
  /\ focusedTab \in Names
  /\ enabled[focusedTab]
  /\ isScrolling = 1
  /\ isScrollingTimer
  /\ scrollYCurrent > 0

\* C27: on iOS a drag end on an enabled pane starts the delay on afterDrag
\* (elsewhere none is started); a momentum begin or a drag begin on that pane
\* cancels it, and a cancelled delay never runs the momentum-end logic; the
\* delay, when it runs out, runs the momentum-end logic once (isGliding is
\* cleared and onMomentumEnd applied) and is spent; nothing but a drag end
\* starts it.
C27_FallbackOnce ==
  [][\A n \in Names :
       /\ (PaneOnEndDrag(n) /\ enabled[n]) => (isGliding' /\ afterDrag'[n] = IS_IOS)
       /\ ((PaneOnMomentumBegin(n) \/ PaneOnBeginDrag(n)) /\ enabled[n]) => ~afterDrag'[n]
       /\ (afterDrag'[n] /\ ~afterDrag[n]) => (IS_IOS /\ enabled[n] /\ PaneOnEndDrag(n))
       /\ AfterDragTimer(n)
          => /\ IS_IOS /\ afterDrag[n] /\ ~afterDrag'[n]
             /\ ~isGliding'
             /\ isSnapping' = OnMomentumEnd(n).isSnapping
             /\ snappingTo' = OnMomentumEnd(n).snappingTo
             /\ out'.cmds = OnMomentumEnd(n).cmds]_vars

\* on iOS a drag has ended on the enabled focused pane: the header glides
\* and the delay on afterDrag runs
C27_Witness ==
  /\ IS_IOS
  /\ focusedTab \in Names
  /\ enabled[focusedTab]
  /\ afterDrag[focusedTab]
  /\ isGliding

\* The glide flag of one pane whose handler the list switches on and off: the
\* container of SpecClamp with the reaction of the list on scrollYCurrent,
\* which disables the handler at the top and when the content cannot scroll.
InitGlide == InitWith(ClampProps, BOOLEAN, {<<"A">>}, {MaxHeader}, {FALSE})

NextGlide ==
  \/ \E name \in Names : EnableAfterMount(name)
  \/ \E name \in Names : CanScrollReaction(name)
  \/ \E name \in Names : SetRef(name)
  \/ \E name \in Names : \E s \in (-1) .. MaxY : PaneOnScroll(name, s)
  \/ IsScrollingTimeout
  \/ \E name \in Names : PaneOnBeginDrag(name)
  \/ \E name \in Names : PaneOnEndDrag(name)
  \/ \E name \in Names : PaneOnMomentumBegin(name)
  \/ \E name \in Names : PaneOnMomentumEnd(name)
  \/ \E name \in Names : AfterDragTimer(name)
  \/ OnLayout
  \/ \E name \in Names : \E h \in 0 .. MaxContent : ContentSizeChange(name, h)

SpecGlide == InitGlide /\ [][NextGlide]_vars

\* the native momentum end of a pane and the delay on afterDrag are not held
\* back for ever: each comes again and again while it has something to do
SpecGlideFair ==
  /\ SpecGlide
  /\ SF_vars(\E name \in Names : PaneOnMomentumEnd(name))
  /\ SF_vars(\E name \in Names : AfterDragTimer(name))

\* C28: whenever isGliding is set (by a drag end), a state follows in which
\* it is cleared, on both platforms and whatever the pane's enabled flag
\* becomes between the drag end and the momentum end.
C28_GlideCleared == isGliding ~> ~isGliding

\* C29: jumpToTab with the name of the focused tab, when nothing scrolls or
\* glides, leaves index and offset as they are, emits no change event, and
\* issues exactly one animated scroll command, to that pane and to
\* headerScrollDistance.
C29_JumpToFocused ==
  [][\A n \in Names :
       (JumpToTab(n) /\ n = focusedTab /\ ~Busy)
       => /\ index' = index
          /\ offset' = offset
          /\ out'.change = <<>>
          /\ out'.cmds = {<<n, headerScrollDistance, TRUE>>}]_vars

\* C29 as the code has it: the same, the one command being issued when the
\* pane has registered its ref and none otherwise.
C29_JumpToFocusedWithRef ==
  [][\A n \in Names :
       (JumpToTab(n) /\ n = focusedTab /\ ~Busy)
       => /\ index' = index
          /\ offset' = offset
          /\ calculateNextOffset' = index
          /\ out'.change = <<>>
          /\ out'.ret = "true"
          /\ out'.cmds = IF n \in refMap THEN {<<n, headerScrollDistance, TRUE>>}
                         ELSE {}]_vars

\* jumpToTab has just told the focused pane, scrolled away from the boundary,
\* to scroll to headerScrollDistance
C29_Witness ==
  /\ focusedTab \in Names
  /\ out.ret = "true"
  /\ out.change = <<>>
  /\ out.cmds = {<<focusedTab, headerScrollDistance, TRUE>>}
  /\ headerScrollDistance > 0
  /\ scrollYCurrent # headerScrollDistance

\* The pager: two tabs in clamp mode on Android, whose pager is dragged,
\* scrolls and comes to rest, while the panes scroll and jumpToTab moves the
\* focus.
InitPager == InitWith({TabsProps}, {FALSE}, {<<"A", "B">>}, {MaxSwitchY}, {FALSE})

NextPager ==
  \/ \E name \in Names : EnableAfterMount(name)
  \/ \E name \in Names : \E s \in 0 .. MaxSwitchY : PaneOnScroll(name, s)
  \/ IsScrollingTimeout
  \/ \E name \in Names : JumpToTab(name)
  \/ PagerBeginDrag
  \/ \E x \in 0 .. (PageWidth * MaxTabs) : PagerScroll(x)
  \/ PagerMomentumEnd

SpecPager == InitPager /\ [][NextPager]_vars

\* C30: when a swipe of the pager comes to rest, the index has changed at
\* most once since the drag began, and not at all if the swipe rests on the
\* tab it began on.
C30_SwipeChangesOnce ==
  [][(PagerMomentumEnd /\ isSwiping)
     => /\ Len(swipeLog) <= 2
        /\ (index = swipeLog[1] => Len(swipeLog) = 1)]_vars

\* C30 as the code has it: while the pager is swiped the index follows the
\* page nearest to the pager's position, every pager event that leaves the
\* nearest page other than the index changing the index to it at once with
\* exactly one change event; otherwise a pager event leaves the index and
\* emits nothing, the momentum end included.
C30_IndexFollowsSwipe ==
  [][(PagerBeginDrag \/ PagerMomentumEnd
        \/ \E x \in 0 .. (PageWidth * MaxTabs) : PagerScroll(x))
     => \A k \in 0 .. MaxTabs :
          ((2 * k - 1) * PageWidth <= 2 * indexDecimal'
             /\ 2 * indexDecimal' < (2 * k + 1) * PageWidth)
          => LET to == IF isSwiping' THEN k ELSE index
             IN /\ index' = to
                /\ out'.change = IF to # index
                                 THEN <<[prevIndex |-> index, index |-> to,
                                         prevTabName |-> NameAt(tabNames, index),
                                         tabName |-> NameAt(tabNames, to)]>>
                                 ELSE <<>>]_vars

\* a swipe took the focus to the other tab and has just brought it back,
\* with a change event each time
C30_Witness ==
  /\ isSwiping
  /\ Len(swipeLog) = 3
  /\ swipeLog[1] = swipeLog[3]
  /\ index = swipeLog[3]
  /\ out.change # <<>>

\* C31: indexDecimal changes only while the pager is swiped, that is in a
\* step that leaves isSwiping set (from the pager's drag begin until its
\* momentum end); the pager's scrolling outside a swipe never changes it.
C31_OnlyWhileSwiping ==
  [][indexDecimal' # indexDecimal => isSwiping']_vars

\* C31 as the code has it: indexDecimal changes only by a pager event that
\* finds canUpdateIndexDecimal set, and then to scrollX; the flag is set by
\* the pager's drag begin and by a jump to a tab other than the focused one,
\* and cleared by the pager's momentum end alone; while it is clear the
\* pager's scrolling leaves indexDecimal.
C31_OnlyWhileCanUpdate ==
  [][/\ indexDecimal' # indexDecimal
        => (canUpdateIndexDecimal' /\ indexDecimal' = scrollX')
     /\ (canUpdateIndexDecimal' /\ ~canUpdateIndexDecimal)
        => \/ PagerBeginDrag
           \/ \E n \in Names : JumpToTab(n) /\ n # focusedTab /\ ~Busy
     /\ (canUpdateIndexDecimal /\ ~canUpdateIndexDecimal') => PagerMomentumEnd
     /\ \A x \in 0 .. (PageWidth * MaxTabs) :
          (PagerScroll(x) /\ ~canUpdateIndexDecimal) => indexDecimal' = indexDecimal]_vars

\* outside a swipe, after a jump to the first tab, the pager is half way on
\* its scroll there and indexDecimal has gone along
C31_Witness ==
  /\ ~isSwiping
  /\ canUpdateIndexDecimal
  /\ index = 0
  /\ 2 * scrollX = PageWidth
  /\ indexDecimal = scrollX
  /\ swipeLog = <<>>
  /\ out = NoOut

\* The pan gesture on the header: one tab in clamp mode on Android, with and
\* without a pullToRefreshHeight; the pane registers its ref, the container
\* and the content are measured, the gesture starts, moves by at most MaxY
\* and ends, isRefreshing changes, the decay and the timing on scrollYCurrent
\* run.
InitPan == InitWith(PullProps, {FALSE}, {<<"A">>}, {MaxHeader}, {FALSE})

NextPan ==
  \/ \E name \in Names : SetRef(name)
  \/ OnLayout
  \/ \E name \in Names : \E h \in 0 .. MaxContent : ContentSizeChange(name, h)
  \/ PanStart
  \/ \E t \in PanT : PanActive(t)
  \/ \E v \in PanV : PanEnd(v)
  \/ \E settle \in BOOLEAN : DecayFrame(settle)
  \/ ShouldAnimateTimeout
  \/ \E b \in BOOLEAN : SetIsRefreshing(b, FALSE)
  \/ YFrame

SpecPan == InitPan /\ [][NextPan]_vars

\* C32: a move of the pan gesture in the scroll direction that writes
\* scrollYCurrent sets it to the scroll position at the gesture's start less
\* the translation, copies it into the focused tab's slot of scrollY, pushes
\* it unanimated to the focused pane once that has its ref, and the value
\* written is not above contentHeight + headerScrollDistance + tabBarHeight
\* - containerHeight of the focused tab.
C32_MoveWithinBound ==
  [][\A t \in PanT :
       (PanActive(t) /\ (t < 0 \/ startY + t < 0) /\ scrollYCurrent' # scrollYCurrent)
       => /\ scrollYCurrent' = (0 - startY) - t
          /\ At(scrollY', index) = scrollYCurrent'
          /\ focusedTab \in refMap
             => out'.cmds = {<<focusedTab, scrollYCurrent', FALSE>>}
          /\ IsNum(ScrollMax) => scrollYCurrent' <= ScrollMax]_vars

\* C33: in every state, during a pan gesture and at its end, neither
\* scrollYCurrent nor the focused tab's slot of scrollY is below
\* -pullToRefreshHeight; with pullToRefreshHeight = 0 neither is negative.
C33_NotBelowPull ==
  /\ ~JsLt(scrollYCurrent, 0 - props.pullToRefreshHeight)
  /\ ~JsLt(At(scrollY, index), 0 - props.pullToRefreshHeight)
  /\ props.pullToRefreshHeight = 0
     => (~JsLt(scrollYCurrent, 0) /\ ~JsLt(At(scrollY, index), 0))

\* the pan gesture has pulled the header down from the top by the whole
\* pullToRefreshHeight and no further
C33_Witness ==
  /\ panActive
  /\ startY = 0
  /\ ~isRefreshing
  /\ yAnim = NoAnim
  /\ props.pullToRefreshHeight > 0
  /\ scrollYCurrent = 0 - props.pullToRefreshHeight
  /\ At(scrollY, index) = scrollYCurrent

\* C34: every value a frame of the decay writes to scrollYCurrent lies
\* between 0 and the upper end of the clamp the decay was started with
\* (contentHeight + headerScrollDistance + tabBarHeight - containerHeight of
\* the focused tab, where that is a number), and
\* the focused tab's slot of scrollY receives the same value; a decay value
\* is written only while shouldAnimateScroll is 1, and while that flag is 1
\* the decay runs or the delay that returns the flag to 0 does.
C34_DecayWithinClamp ==
  /\ [][\A settle \in BOOLEAN :
          (DecayFrame(settle) /\ scrollYCurrent' # scrollYCurrent)
          => /\ shouldAnimateScroll = 1
             /\ scrollYCurrent' >= 0
             /\ IsNum(decay.hi) => scrollYCurrent' <= decay.hi
             /\ At(scrollY', index) = scrollYCurrent']_vars
  /\ [](shouldAnimateScroll = 1 => (decay.on \/ shouldAnimateTimer))

\* C35: once a pan gesture has begun, no animation started before it writes
\* its field again and no callback of one takes effect: while the gesture
\* lasts no frame of the timing on scrollYCurrent (jump back, refresh) and
\* no frame of the decay writes scrollYCurrent, and the start of the gesture,
\* which cancels a running decay, does not start the delay that the decay's
\* callback puts on shouldAnimateScroll.
C35_NoStaleWriter ==
  [][/\ YFrame => ~panActive
     /\ \A settle \in BOOLEAN : DecayFrame(settle) => ~panActive
     /\ (PanStart /\ decay.on) => shouldAnimateTimer' = shouldAnimateTimer]_vars

\* The synchroniser after changes of the tab list: clamp mode without snap on
\* Android, one or two tabs whose list is replaced or reordered while the
\* panes stay mounted or are mounted again; the panes enable their handlers
\* and scroll, and the synchronisers of the unfocused panes run.
InitReorder == InitWith(SyncProps, {FALSE}, TabLists, {MaxSyncHeader}, {FALSE})

NextReorder ==
  \/ \E name \in Names : EnableAfterMount(name)
  \/ \E name \in Names : \E s \in 0 .. MaxSwitchY : PaneOnScroll(name, s)
  \/ IsScrollingTimeout
  \/ \E names \in TabLists : \E keyed \in BOOLEAN : SetTabs(names, keyed, names)
  \/ AfterRenderReaction
  \/ \E name \in Names : SyncPane(name)

SpecReorder == InitReorder /\ [][NextReorder]_vars

\* C36: a run of the synchroniser of a pane changes no slot of scrollY but
\* that of the pane's own tab, so never the slot of the focused tab, and
\* leaves scrollYCurrent, offset and accDiffClamp, also after the tab list
\* has been reordered since the pane mounted.
C36_OwnSlotOnly ==
  [][\A n \in Names :
       SyncPane(n)
       => /\ At(scrollY', index) = At(scrollY, index)
          /\ \A i \in (DOMAIN scrollY) \cup (DOMAIN scrollY') :
               i # FindIndex(tabNames, n) => At(scrollY', i) = At(scrollY, i)
          /\ UNCHANGED <<scrollYCurrent, offset, accDiffClamp>>]_vars

====
